---------------------------- MODULE Spec2Model ----------------------------
(***************************************************************************)
(* Glaze Autotiler: the supervisor of layout policies (src/src/main.py).   *)
(*                                                                         *)
(* AutoTiler.start_layout and AutoTiler.stop_script are called from the    *)
(* event-loop thread (the launch start, run_event_loop) and from the tray  *)
(* menu thread.  A policy runs as an asyncio task of the event loop; the   *)
(* supervisor holds the concurrent.futures handle that                     *)
(* asyncio.run_coroutine_threadsafe returns (running_task), the name of    *)
(* the layout it considers active (current_script) and the threading.Event *)
(* shared with the policies (cancel_event).                                *)
(*                                                                         *)
(* A caller's steps are cut at the places where the caller sleeps          *)
(* (time.sleep in stop_script) and where stop_script hands control back to *)
(* start_layout; the event loop runs its callbacks and the tasks between   *)
(* those places.                                                           *)
(***************************************************************************)
EXTENDS Naturals, Sequences, FiniteSets

(* Bounds of the model. *)
MaxHandles == 2      \* policy tasks scheduled in one behaviour
MaxEdits == 2        \* external rewrites of the config file
MaxWrites == 4       \* writes of the config file, by anybody
MaxItems == 2        \* entries in the "layouts" dictionary of a config file
MaxPaths == 2        \* entries in "script_paths"

None == "None"
NoTask == 0
Builtin == {"dwindle", "master_stack"}
Names == Builtin \cup {"ghost"}          \* "ghost": a name that is no layout
Handles == 1..MaxHandles
Threads == {"evt", "ctl"}
Paths == {"scripts", "extra"}            \* scripts_dir and one more directory

(* The operations on the config file that are followed step by step:      *)
(* the construction (__init__ lines 74-75), update_config, apply_changes.  *)
Operations == {"init", "update_config", "apply_changes"}

(* What a directory holds under <name>.py: nothing; a script with a        *)
(* coroutine run; a script without one; a script whose execution raises    *)
(* ImportError; a script whose execution raises anything else.             *)
Kinds == {"absent", "ok", "norun", "importerr", "syntaxerr"}

VARIABLES
    loop,            \* self.loop: "None" until run_event_loop creates it, then "open", "closed"
    layouts,         \* self.layouts: the names in the registry (its keys)
    layout_items,    \* self.layouts: its entries (name, path) in insertion order
    default_layout,  \* self.default_layout
    current_script,  \* self.current_script
    running_task,    \* self.running_task: a handle, or NoTask
    cancel_event,    \* self.cancel_event.is_set()
    fut,             \* per handle: state of the concurrent future given to the caller
    task,            \* per handle: position of the asyncio task running run_layout
    must_cancel,     \* per handle: Task.cancel() requested, CancelledError not yet thrown
    tname,           \* per handle: the layout whose run() the task executes
    ready,           \* the loop's queue of callbacks handed over with call_soon_threadsafe
    cfg_default,     \* "default_layout" of the config file
    cfg_valid,       \* the config file parses as JSON
    cfg_layouts,     \* "layouts" of the config file: entries (name, enabled) in order
    script_paths,    \* "script_paths" of the config file
    disk,            \* per directory and name: what <name>.py is there
    mtime,           \* modification time of the config file
    config_last_modified,  \* self.config_last_modified
    wpc,             \* position of the scan: "init" (__init__), "idle", "loading", "crashed"
    todo,            \* load_layouts: the entries its loop has still to visit
    seen_invalid,    \* a tick of the watcher has found a file that does not parse
    reloads,         \* ticks of the watcher that have reloaded
    nedits,          \* external rewrites so far
    pc,              \* per thread: position of the thread
    call,            \* per thread: the call in progress or last made
    ret,             \* per thread: result of the last call
    icon,            \* self.icon is set (create_icon line 612)
    tooltip,         \* self.icon.title: "None" without an icon, else the layout named
                     \* after "Current Layout: ", or NoLayout ("No layout active")
    reconnect_delay, \* per handle: reconnect_delay of run(), in 64ths of a second
    sleeps,          \* per handle: the delays run() has slept before reconnecting
    websocket,       \* per handle: the connection of "async with": "none", "open",
                     \* "dead" (closed by the peer)
    tiling_size,     \* per handle: tiling_size of master_stack_layout while it
                     \* awaits the reply to its query
    sent,            \* per handle: what the layout has sent since the last inbound event
    session,         \* per handle: an inbound event was handled since the last backoff sleep
    response,        \* per handle: the frame the last recv returned (response,
                     \* direction_response)
    cfg_exists,      \* os.path.exists(self.config_file)
    cfg_keys,        \* the keys of the JSON object in the config file
    display_names,   \* self.layouts: per registered name its "display_name",
                     \* followed where the config file is the subject
    config,          \* load_config: its local config
    config_data,     \* update_config: its local config_data
    current_config,  \* apply_changes: its local current_config (layouts)
    full_config,     \* apply_changes: its local full_config
    stage            \* per operation on the config file: how far it has come

vars == <<loop, layouts, layout_items, default_layout, current_script, running_task,
          cancel_event, fut, task, must_cancel, tname, ready, cfg_default, cfg_valid,
          cfg_layouts, script_paths, disk, mtime, config_last_modified, wpc, todo,
          seen_invalid, reloads, nedits, pc, call, ret, icon, tooltip,
          reconnect_delay, sleeps, websocket, tiling_size, sent, session, response,
          cfg_exists, cfg_keys, display_names, config, config_data, current_config,
          full_config, stage>>

(* What start_layout and stop_script read and write, without the callers'  *)
(* own positions.                                                          *)
supervisor == <<loop, layouts, layout_items, default_layout, current_script,
                running_task, cancel_event, fut, task, must_cancel, tname, ready,
                cfg_default, cfg_valid, cfg_layouts, script_paths, mtime>>

(* The registry and the default layout. *)
registry == <<layouts, layout_items, default_layout>>

(* The config file apart from its "default_layout", and the directories. *)
files == <<cfg_layouts, script_paths, disk>>

(* The watcher's own state. *)
watcher == <<config_last_modified, wpc, todo, seen_invalid, reloads>>

(* The policy as the supervisor and the loop hold it. *)
policy == <<current_script, running_task, cancel_event, fut, task, must_cancel,
            tname, ready>>

(* The tray icon and its title. *)
tray == <<icon, tooltip>>

(* The locals of a policy's run() and of its layout coroutine. *)
locals == <<reconnect_delay, sleeps, websocket, tiling_size, sent, session, response>>

(* The config file as a JSON object, key by key, and the operations that   *)
(* read and write it with their locals.                                    *)
store == <<cfg_exists, cfg_keys, display_names, config, config_data, current_config,
           full_config, stage>>

NoCall == [op |-> "none", arg |-> None, was |-> None, had |-> FALSE]

(* The thread's position outside a call: the event-loop thread runs the    *)
(* loop (run_forever), the menu thread waits for the next click.           *)
Home(t) == IF t = "evt" THEN "loop" ELSE "idle"

(***************************************************************************)
(* The scan: load_layouts and what it calls.                               *)
(***************************************************************************)
Entry(n, e) == [name |-> n, enabled |-> e]

(* get_layout_config lines 369-374: the layouts of a config file that      *)
(* does not say otherwise.                                                 *)
BothEnabled == <<Entry("dwindle", TRUE), Entry("master_stack", TRUE)>>

(* pre_package_default_scripts: scripts_dir holds the two built-in scripts. *)
Packaged == [p \in Paths |-> [n \in Builtin |-> IF p = "scripts" THEN "ok" ELSE "absent"]]

Keys(items) == {items[i].name : i \in DOMAIN items}

(* the search taking the last directory that has the script *)
RECURSIVE FindScriptPathLast(_, _, _)
FindScriptPathLast(n, paths, d) ==
    IF paths = <<>> THEN None
    ELSE LET later == FindScriptPathLast(n, Tail(paths), d)
         IN  IF later # None THEN later
             ELSE IF d[Head(paths)][n] # "absent" THEN Head(paths) ELSE None

(* _find_script_path: the first directory, in the order given, that has    *)
(* <name>.py; None when no directory has it.                               *)
RECURSIVE FindScriptPath(_, _, _)
FindScriptPath(n, paths, d) ==
    IF paths = <<>> THEN None
    ELSE IF d[Head(paths)][n] # "absent" THEN Head(paths)
    ELSE FindScriptPath(n, Tail(paths), d)

(* line 270 taking any module that loaded *)
HasRunAny(kind) == kind \in {"ok", "norun"}

(* line 270: the module has a coroutine function named run *)
HasRun(kind) == kind = "ok"

(* lines 268-275: exec_module raised something "except ImportError" does   *)
(* not catch, and it leaves _load_single_layout.                           *)
LoadRaises(kind) == kind = "syntaxerr"

(* line 259 with the default False: an entry without "enabled" is skipped *)
EnabledOfStrict(info) == IF "enabled" \in DOMAIN info THEN info.enabled ELSE FALSE

(* layout_info.get("enabled", True) (line 259) *)
EnabledOf(info) == IF "enabled" \in DOMAIN info THEN info.enabled ELSE TRUE

(* _load_single_layout: what becomes of one entry of the config:           *)
(* "skip" (disabled, no script, no run coroutine, ImportError),            *)
(* "register" with the path found, or "raise".                             *)
LoadSingleLayout(item, paths, d) ==
    LET p == FindScriptPath(item.name, paths, d)
    IN  IF ~EnabledOf(item) \/ p = None THEN [out |-> "skip", path |-> None]
        ELSE IF LoadRaises(d[p][item.name]) THEN [out |-> "raise", path |-> p]
        ELSE IF HasRun(d[p][item.name]) THEN [out |-> "register", path |-> p]
        ELSE [out |-> "skip", path |-> p]

(* _register_layout: the entry is added to the dictionary. *)
RegisterLayout(items, n, p) == Append(items, [name |-> n, path |-> p])

(* load_layouts lines 252-253 from an empty dictionary: the registry it    *)
(* builds, and whether an exception ended it early.                        *)
RECURSIVE LoadLayouts(_, _, _, _)
LoadLayouts(items, reg, paths, d) ==
    IF items = <<>> THEN [reg |-> reg, raised |-> FALSE]
    ELSE LET r == LoadSingleLayout(Head(items), paths, d)
         IN  IF r.out = "raise" THEN [reg |-> reg, raised |-> TRUE]
             ELSE LoadLayouts(Tail(items),
                              IF r.out = "register"
                              THEN RegisterLayout(reg, Head(items).name, r.path)
                              ELSE reg,
                              paths, d)

(***************************************************************************)
(* The config file as a document.                                          *)
(*                                                                         *)
(* A JSON object is written as a record: the set of its keys and, for the  *)
(* three keys the program knows, the value (Blank where the key is         *)
(* absent).  "theme" stands for a key the program does not know.  An entry *)
(* of "layouts" is a record with the layout's name and those of "enabled"  *)
(* and "display_name" that the entry has.                                  *)
(***************************************************************************)
ConfigKeys == {"default_layout", "script_paths", "layouts"}
DocKeys == ConfigKeys \cup {"theme"}

Blank(k) == IF k = "default_layout" THEN None ELSE <<>>

Doc(keys, d, p, l) ==
    [keys |-> keys,
     default_layout |-> IF "default_layout" \in keys THEN d ELSE Blank("default_layout"),
     script_paths |-> IF "script_paths" \in keys THEN p ELSE Blank("script_paths"),
     layouts |-> IF "layouts" \in keys THEN l ELSE Blank("layouts")]

(* "config_data = {}" (line 395) *)
Empty == Doc({}, None, <<>>, <<>>)

(* dict.get(k, dflt) *)
Get(doc, k, dflt) == IF k \in doc.keys THEN doc[k] ELSE dflt

(* doc[k] = v *)
Put(doc, k, v) == [doc EXCEPT !.keys = @ \cup {k}, ![k] = v]

Titled(n, e, t) == [name |-> n, enabled |-> e, display_name |-> t]

(* _get_default_config lines 334-338 *)
DefaultConfig ==
    Doc(ConfigKeys, "dwindle", <<"scripts">>, <<Titled("dwindle", TRUE, "Dwindle Layout")>>)

(* get_layout_config lines 369-374: default_config["layouts"] *)
DefaultLayouts ==
    <<Titled("dwindle", TRUE, "Dwindle Layout"),
      Titled("master_stack", TRUE, "Master Stack")>>

(* get_script_paths lines 315-319 *)
GetScriptPaths(exists, file) ==
    IF exists THEN Get(file, "script_paths", <<"scripts">>) ELSE <<"scripts">>

(* get_layout_config lines 376-391: the document it leaves in the file     *)
(* (it creates a missing file, line 378) and the layouts it returns.       *)
GetLayoutConfig(exists, file) ==
    LET now == IF exists THEN file ELSE Doc({"layouts"}, None, <<>>, DefaultLayouts)
    IN  [file |-> now, layouts |-> Get(now, "layouts", DefaultLayouts)]

(* a merge in which the defaults win *)
MergeConfigsOverwrites(current, default) ==
    LET pick(k) == IF k \in default.keys THEN default[k] ELSE current[k]
    IN  [keys |-> current.keys \cup default.keys,
         default_layout |-> pick("default_layout"),
         script_paths |-> pick("script_paths"),
         layouts |-> pick("layouts")]

(* _merge_configs lines 352-355: a key of default is set where current     *)
(* does not have it.                                                       *)
MergeConfigs(current, default) ==
    LET pick(k) == IF k \in current.keys THEN current[k] ELSE default[k]
    IN  [keys |-> current.keys \cup default.keys,
         default_layout |-> pick("default_layout"),
         script_paths |-> pick("script_paths"),
         layouts |-> pick("layouts")]

(* str.capitalize() of a layout's name: the first character in upper case, *)
(* the others in lower case.                                               *)
Capitalize(n) ==
    IF n = "dwindle" THEN "Dwindle"
    ELSE IF n = "master_stack" THEN "Master_stack"
    ELSE "Ghost"

(* layout_info.get("display_name", layout_name.capitalize()) (line 308) *)
DisplayNameOf(info) ==
    IF "display_name" \in DOMAIN info THEN info.display_name ELSE Capitalize(info.name)

(* self.layouts[n]["display_name"] of the layouts registered from items *)
DisplayNames(reg, items) ==
    [n \in Names |->
        IF \E i \in DOMAIN reg : reg[i].name = n
        THEN DisplayNameOf(items[CHOOSE i \in DOMAIN items : items[i].name = n])
        ELSE None]

(* _validate_default_layout: the configured default if it is registered,   *)
(* else the first registered layout, else "dwindle".                       *)
FirstLayout(reg) == IF reg = <<>> THEN "dwindle" ELSE reg[1].name

(* line 359 without its test: the configured default is kept *)
ValidateDefaultTrusting(reg, d) == d

(* _validate_default_layout lines 359-365 *)
ValidateDefault(reg, d) == IF d \in Keys(reg) THEN d ELSE FirstLayout(reg)

(* A frame from the window manager: what it is, the tilingSize of the      *)
(* window it is about, the tilingDirection it reports.                     *)
Frame(t, z, d) == [type |-> t, size |-> z, dir |-> d]

(* No frame received yet. *)
NoFrame == Frame("none", "null", "null")

(* reconnect_delay = 2 (lines 122, 180), the first statement of run(), in  *)
(* 64ths of a second: every delay run() computes is a whole number of them.*)
Unit == 2^6
InitialDelay == 2 * Unit

(* The state after AutoTiler.__init__ with the packaged scripts and a      *)
(* config file that enables both layouts or dwindle alone: the registry    *)
(* holds the enabled layouts, nothing runs, the loop does not exist.       *)
Fields ==
    /\ loop = None
    /\ current_script = None
    /\ running_task = NoTask
    /\ cancel_event = FALSE
    /\ fut = [h \in Handles |-> "none"]
    /\ task = [h \in Handles |-> "none"]
    /\ must_cancel = [h \in Handles |-> FALSE]
    /\ tname = [h \in Handles |-> None]
    /\ ready = <<>>
    /\ cfg_valid = TRUE
    /\ mtime = 0
    /\ config_last_modified = 0
    /\ seen_invalid = FALSE
    /\ reloads = 0
    /\ nedits = 0
    /\ pc = [t \in Threads |-> IF t = "evt" THEN "boot" ELSE "idle"]
    /\ call = [t \in Threads |-> NoCall]
    /\ ret = [t \in Threads |-> "none"]
    /\ icon = FALSE
    /\ tooltip = None
    /\ reconnect_delay = [h \in Handles |-> InitialDelay]
    /\ sleeps = [h \in Handles |-> <<>>]
    /\ websocket = [h \in Handles |-> "none"]
    /\ tiling_size = [h \in Handles |-> None]
    /\ sent = [h \in Handles |-> <<>>]
    /\ session = [h \in Handles |-> FALSE]
    /\ response = [h \in Handles |-> NoFrame]
    /\ display_names = [n \in Names |-> None]
    /\ config = Empty
    /\ config_data = Empty
    /\ current_config = <<>>
    /\ full_config = Empty
    /\ stage = [o \in Operations |-> "idle"]

Init ==
    /\ Fields
    /\ cfg_layouts \in {BothEnabled,
                        <<Entry("dwindle", TRUE), Entry("master_stack", FALSE)>>}
    /\ script_paths = <<"scripts">>
    /\ disk = Packaged
    /\ cfg_default \in Builtin
    /\ cfg_exists = TRUE
    /\ cfg_keys = ConfigKeys
    /\ layout_items = LoadLayouts(cfg_layouts, <<>>, script_paths, disk).reg
    /\ layouts = Keys(layout_items)
    /\ default_layout = ValidateDefault(layout_items, cfg_default)
    /\ wpc = "idle"
    /\ todo = <<>>


(***************************************************************************)
(* Handles and tasks.                                                      *)
(*                                                                         *)
(* fut[h]:  "none" (not yet created), "pending", "cancelled", "finished".  *)
(* task[h]: "none", "unborn" (scheduled, the loop has not created the task *)
(*          yet), "new" (created, first step queued), "conn" (awaiting     *)
(*          websockets.connect), "sub" (in the policy's inner loop,        *)
(*          awaiting recv), "exit" (leaving "async with", awaiting the     *)
(*          close), "backoff" (asleep after a connection error), "query"   *)
(*          (master_stack awaiting the reply to its query), "errsleep"     *)
(*          (asleep in the inner loop's "except Exception"), "failed"      *)
(*          (asleep in run_layout's "except Exception"), "ended".          *)
(***************************************************************************)
Live == {"unborn", "new", "conn", "sub", "query", "errsleep", "exit", "backoff",
         "failed"}
Executing == {"conn", "sub", "query", "errsleep", "exit", "backoff"}

(* Future.done() of the handle: true once it is cancelled or finished.     *)
Done(h) == fut[h] \in {"cancelled", "finished"}

NonTerminal == {h \in Handles : task[h] \in Live}

Item(k, h) == [k |-> k, h |-> h]

NoLayout == "No layout active"

(* update_tooltip lines 685-715: without an icon nothing is written; else  *)
(* the title names the current script if the registry holds it (by its     *)
(* display name, which the registry keeps per name) and says that no       *)
(* layout is active otherwise.                                             *)
UpdateTooltip(script, reg) ==
    IF ~icon THEN tooltip
    ELSE IF script # None /\ script \in reg THEN script ELSE NoLayout

(* line 406 without its test: every name passes *)
RegisteredAlways(n) == TRUE

(* line 406: the name is a key of the registry *)
Registered(n) == n \in layouts

(* line 410 without its test: every start restarts *)
AlreadyActiveNever(n) == FALSE

(* line 410: the layout asked for is the one recorded as current *)
AlreadyActive(n) == current_script = n

(* line 478 testing the loop alone *)
StopGuardLoopOnly == loop # None

(* line 478: there is a handle to stop and a loop to stop it in *)
StopGuard == running_task # NoTask /\ loop # None

(* lines 506-507 without line 506, and without line 507 *)
AfterStopKeepsScript == [script |-> current_script, event |-> FALSE]

AfterStopKeepsEvent == [script |-> None, event |-> cancel_event]

(* lines 506-507: what stop_script leaves in current_script and cancel_event *)
AfterStop == [script |-> None, event |-> FALSE]

(* line 399 storing what the file held *)
UpdateConfigKeeps(n) == cfg_default

(* line 399: the value update_config stores as "default_layout" *)
UpdateConfig(n) == n

(* The caller leaves the call with result r.  An exception out of the      *)
(* launch start leaves run_event_loop's "try" (line 770).                  *)
Return(t, r) ==
    /\ pc' = [pc EXCEPT ![t] = IF t = "evt" /\ r = "raised" THEN "cleanup" ELSE Home(t)]
    /\ ret' = [ret EXCEPT ![t] = r]

(* stop_script returns: to start_layout (line 412) when it was called from *)
(* there (o = "start"), to the caller otherwise.                           *)
StopReturn(t, o) ==
    IF o = "start"
    THEN pc' = [pc EXCEPT ![t] = "start_resume"] /\ ret' = [ret EXCEPT ![t] = "none"]
    ELSE Return(t, "returned")

(* stop_script lines 504-510: detach the handle (line 504, inside the "if" *)
(* of line 478), forget the current script, clear the event, update the    *)
(* tooltip, return.                                                        *)
StopTail(t, o, detach) ==
    /\ running_task' = IF detach THEN NoTask ELSE running_task
    /\ current_script' = AfterStop.script
    /\ cancel_event' = AfterStop.event
    /\ tooltip' = UpdateTooltip(AfterStop.script, layouts)
    /\ StopReturn(t, o)

(* stop_script lines 478-483: raise the event and sleep; with nothing to   *)
(* stop, lines 478 and 506-510 at once.                                    *)
StopEnter(t, o) ==
    IF StopGuard
    THEN /\ cancel_event' = TRUE
         /\ pc' = [pc EXCEPT ![t] = "stop_sleep"]
         /\ ret' = [ret EXCEPT ![t] = "none"]
         /\ UNCHANGED <<running_task, current_script, tooltip>>
    ELSE StopTail(t, o, FALSE)

(* A new call by thread t, with what was current when it began. *)
NewCall(t, o, n) ==
    call' = [call EXCEPT ![t] = [op |-> o, arg |-> n, was |-> current_script,
                                 had |-> running_task # NoTask]]

InCall == {"stop_sleep", "stop_wait", "start_resume"}

(* Handles in use, and starts in progress that may still schedule one. *)
Used == {h \in Handles : task[h] # "none"}
Starting == {t \in Threads : call[t].op = "start" /\ pc[t] \in InCall}

(* start_layout lines 404-411: unknown name, same name, or stop_script.    *)
StartEnter(t, n) ==
    /\ NewCall(t, "start", n)
    /\ IF ~Registered(n) \/ AlreadyActive(n)
       THEN /\ Return(t, "False")
            /\ UNCHANGED <<running_task, current_script, cancel_event, tooltip>>
       ELSE /\ Cardinality(Used) + Cardinality(Starting) < MaxHandles
            /\ mtime + Cardinality(Starting) < MaxWrites
            /\ StopEnter(t, "start")
    /\ UNCHANGED <<loop, registry, fut, task, must_cancel, tname, ready, cfg_default,
                   cfg_valid, files, mtime, watcher, nedits, icon, locals, store>>

(* stop_script called by the menu ("Stop Script"), lines 475-483.          *)
StopCall(t) ==
    /\ NewCall(t, "stop", None)
    /\ StopEnter(t, "stop")
    /\ UNCHANGED <<loop, registry, fut, task, must_cancel, tname, ready, cfg_default,
                   cfg_valid, files, mtime, watcher, nedits, icon, locals, store>>

(* stop_script lines 486-488 after the first sleep: the handle is done, or *)
(* its cancel is handed to the loop; a closed loop refuses it with a       *)
(* RuntimeError, caught at line 500.  With running_task emptied by another *)
(* thread, line 486 raises AttributeError out of the call.                 *)
StopForce(t) ==
    /\ pc[t] = "stop_sleep"
    /\ IF running_task = NoTask
       THEN /\ Return(t, "raised")
            /\ UNCHANGED <<running_task, current_script, cancel_event, ready, tooltip>>
       ELSE IF Done(running_task) \/ loop = "closed"
       THEN /\ StopTail(t, call[t].op, TRUE)
            /\ UNCHANGED ready
       ELSE /\ ready' = Append(ready, Item("futcancel", running_task))
            /\ pc' = [pc EXCEPT ![t] = "stop_wait"]
            /\ UNCHANGED <<running_task, current_script, cancel_event, ret, tooltip>>
    /\ UNCHANGED <<loop, registry, fut, task, must_cancel, tname, cfg_default,
                   cfg_valid, files, mtime, watcher, nedits, icon, locals, store, call>>

(* stop_script lines 491-492 and 504-510: the wait loop sees the handle    *)
(* done.  (With running_task emptied by another thread the AttributeError  *)
(* of line 491 is caught at line 500, with the same end.)                  *)
StopWaitDone(t) ==
    /\ pc[t] = "stop_wait"
    /\ IF running_task = NoTask THEN TRUE ELSE Done(running_task)
    /\ StopTail(t, call[t].op, TRUE)
    /\ UNCHANGED <<loop, registry, fut, task, must_cancel, tname, ready, cfg_default,
                   cfg_valid, files, mtime, watcher, nedits, icon, locals, store, call>>

(* lines 491-492 without the clock: wait until the handle is done *)
StopTimeoutNever(t) ==
    /\ pc[t] = "stop_wait"
    /\ FALSE
    /\ UNCHANGED vars

(* stop_script lines 491-495 and 504-510: one second has passed and the    *)
(* handle is still not done; warn and go on.                               *)
StopTimeout(t) ==
    /\ pc[t] = "stop_wait"
    /\ running_task # NoTask /\ ~Done(running_task)
    /\ StopTail(t, call[t].op, TRUE)
    /\ UNCHANGED <<loop, registry, fut, task, must_cancel, tname, ready, cfg_default,
                   cfg_valid, files, mtime, watcher, nedits, icon, locals, store, call>>

(* Future.cancel() on handle h called outside the loop's queue (line 440): *)
(* a pending future becomes cancelled and, once the loop has chained the   *)
(* task to it, its callback hands Task.cancel to the loop (which a closed  *)
(* loop refuses).                                                          *)
CancelNow(f, q, h) ==
    IF f[h] # "pending" THEN [f |-> f, q |-> q]
    ELSE [f |-> [f EXCEPT ![h] = "cancelled"],
          q |-> IF task[h] \in {"none", "unborn"} \/ loop = "closed" THEN q
                ELSE Append(q, Item("taskcancel", h))]

(* lines 397-398 reading whatever the file holds *)
ConfigReadableAlways == TRUE

(* update_config lines 397-398: json.load of the config file succeeds *)
ConfigReadable == cfg_valid

(* line 417: there is no loop *)
LoopMissing == loop = None

(* line 442 on a loop that takes every callback *)
ScheduleRaisesNever == FALSE

(* line 442: run_coroutine_threadsafe raises, as call_soon_threadsafe of a *)
(* closed loop does                                                        *)
ScheduleRaises == loop = "closed"

(* start_layout lines 412-448, after stop_script has returned: the name is *)
(* recorded, the config file rewritten, the tooltip updated (line 414) and *)
(* the task scheduled.                                                     *)
StartResume(t) ==
    /\ pc[t] = "start_resume"
    /\ IF ~ConfigReadable
       THEN \* update_config: json.load raises, out of start_layout
            /\ current_script' = call[t].arg
            /\ Return(t, "raised")
            /\ UNCHANGED <<cfg_default, mtime, running_task, fut, task, tname, ready, tooltip>>
       ELSE /\ cfg_default' = UpdateConfig(call[t].arg)
            /\ mtime' = mtime + 1
            /\ tooltip' = UpdateTooltip(call[t].arg, layouts)
            /\ IF LoopMissing
               THEN /\ current_script' = call[t].arg
                    /\ Return(t, "False")
                    /\ UNCHANGED <<running_task, fut, task, tname, ready>>
               ELSE LET h == Cardinality(Used) + 1
                        c == IF running_task # NoTask
                             THEN CancelNow(fut, ready, running_task)
                             ELSE [f |-> fut, q |-> ready]
                    IN  IF ScheduleRaises
                        THEN \* lines 443-446
                             /\ current_script' = None
                             /\ fut' = c.f
                             /\ ready' = c.q
                             /\ Return(t, "False")
                             /\ UNCHANGED <<running_task, task, tname>>
                        ELSE /\ current_script' = call[t].arg
                             /\ fut' = [c.f EXCEPT ![h] = "pending"]
                             /\ task' = [task EXCEPT ![h] = "unborn"]
                             /\ tname' = [tname EXCEPT ![h] = call[t].arg]
                             /\ ready' = Append(c.q, Item("create", h))
                             /\ running_task' = h
                             /\ Return(t, "True")
    /\ UNCHANGED <<loop, registry, cancel_event, must_cancel, cfg_valid, files,
                   watcher, nedits, icon, locals, store, call>>

(***************************************************************************)
(* The event loop (run_event_loop) and the policy tasks (run_layout around *)
(* the run() of dwindle.py and master_stack.py).                           *)
(***************************************************************************)

(* run_event_loop line 725: the loop exists; it runs from line 769 on. *)
RunEventLoop ==
    /\ pc["evt"] = "boot"
    /\ loop' = "open"
    /\ pc' = [pc EXCEPT !["evt"] = "launch"]
    /\ UNCHANGED <<registry, current_script, running_task, cancel_event, fut, task,
                   must_cancel, tname, ready, cfg_default, cfg_valid, files, mtime,
                   watcher, nedits, tray, locals, store, call, ret>>

(* run_event_loop line 766: the launch start, on the loop's own thread. *)
LaunchStart ==
    /\ pc["evt"] = "launch"
    /\ StartEnter("evt", default_layout)

(* create_icon lines 611-618, run on the main thread after the other       *)
(* threads are started (run, line 923): the icon is there, its tooltip is  *)
(* set and its menu built; the menu can be used from now on.               *)
CreateIcon ==
    /\ ~icon
    /\ icon' = TRUE
    /\ tooltip' = IF current_script # None /\ current_script \in layouts
                  THEN current_script ELSE NoLayout
    /\ UNCHANGED <<loop, registry, policy, cfg_default, cfg_valid, files, mtime,
                   watcher, nedits, pc, call, ret, locals, store>>

(* A menu item of a layout (line 558) and "Stop Script" (line 572), of the *)
(* icon's menu.                                                            *)
MenuStart(n) ==
    /\ icon
    /\ pc["ctl"] = "idle"
    /\ StartEnter("ctl", n)

MenuStop ==
    /\ icon
    /\ pc["ctl"] = "idle"
    /\ StopCall("ctl")

(* run_forever (line 769) or, on the way out, run_until_complete (line     *)
(* 780) is executing callbacks and tasks.                                  *)
LoopRunning == pc["evt"] \in {"loop", "closing"}

(* run_event_loop lines 773-777, after an exception out of the launch      *)
(* start: every task of the loop is cancelled.                             *)
LoopCleanup ==
    /\ pc["evt"] = "cleanup"
    /\ must_cancel' = [h \in Handles |-> must_cancel[h] \/ task[h] \in Live \ {"unborn"}]
    /\ pc' = [pc EXCEPT !["evt"] = "closing"]
    /\ UNCHANGED <<loop, registry, current_script, running_task, cancel_event, fut,
                   task, tname, ready, cfg_default, cfg_valid, files, mtime, watcher,
                   nedits, tray, locals, store, call, ret>>

(* run_event_loop lines 780-784: the tenth of a second is over and the     *)
(* loop is closed; the thread ends.                                        *)
LoopClose ==
    /\ pc["evt"] = "closing"
    /\ loop' = "closed"
    /\ pc' = [pc EXCEPT !["evt"] = "dead"]
    /\ UNCHANGED <<registry, current_script, running_task, cancel_event, fut, task,
                   must_cancel, tname, ready, cfg_default, cfg_valid, files, mtime,
                   watcher, nedits, tray, locals, store, call, ret>>

(* The task of handle h is over: run_layout returns, and the handle, if    *)
(* still pending, gets the result.                                         *)
Ended(h) ==
    /\ task' = [task EXCEPT ![h] = "ended"]
    /\ must_cancel' = [must_cancel EXCEPT ![h] = FALSE]
    /\ fut' = [fut EXCEPT ![h] = IF @ = "pending" THEN "finished" ELSE @]

(* "while not cancel_event.is_set()" of run() (lines 124, 182): the task   *)
(* returns when the event is set and connects otherwise.                   *)
OuterTest(h) ==
    IF cancel_event
    THEN Ended(h)
    ELSE /\ task' = [task EXCEPT ![h] = "conn"]
         /\ UNCHANGED <<must_cancel, fut>>

(* run_layout line 425, the task's first step: the module is looked up in  *)
(* the registry as it is now, and its run() begins.  A name the registry   *)
(* does not hold is a KeyError, caught at line 430, and the task sleeps    *)
(* (line 433).  A task cancelled before its first step never begins.       *)
FirstStep(h) ==
    IF must_cancel[h] THEN Ended(h)
    ELSE IF tname[h] \notin layouts
    THEN /\ task' = [task EXCEPT ![h] = "failed"]
         /\ UNCHANGED <<must_cancel, fut>>
    ELSE OuterTest(h)

(* The loop runs the oldest callback handed to it:                         *)
(*  create:     run_coroutine_threadsafe's callback makes the task and     *)
(*              chains the handle to it; the task's first step is queued,  *)
(*              and for a handle cancelled already so is Task.cancel;      *)
(*  step:       the task's first step, up to its first await;              *)
(*  futcancel:  Future.cancel of the handle (line 488): a pending handle   *)
(*              is cancelled there and then, and Task.cancel is queued;    *)
(*  taskcancel: Task.cancel: CancelledError at the task's next resumption. *)
LoopCallback ==
    /\ LoopRunning
    /\ ready # <<>>
    /\ LET c == Head(ready)
           h == c.h
       IN  CASE c.k = "create" ->
                  /\ task' = [task EXCEPT ![h] = "new"]
                  /\ ready' = Tail(ready) \o <<Item("step", h)>> \o
                        (IF fut[h] = "cancelled" THEN <<Item("taskcancel", h)>> ELSE <<>>)
                  /\ UNCHANGED <<fut, must_cancel>>
             [] c.k = "step" ->
                  /\ FirstStep(h)
                  /\ ready' = Tail(ready)
             [] c.k = "futcancel" ->
                  /\ fut' = [fut EXCEPT ![h] = IF @ = "pending" THEN "cancelled" ELSE @]
                  /\ ready' = IF fut[h] = "pending"
                              THEN Append(Tail(ready), Item("taskcancel", h))
                              ELSE Tail(ready)
                  /\ UNCHANGED <<task, must_cancel>>
             [] c.k = "taskcancel" ->
                  /\ must_cancel' = [must_cancel EXCEPT ![h] = task[h] \in Live]
                  /\ ready' = Tail(ready)
                  /\ UNCHANGED <<task, fut>>
    /\ UNCHANGED <<loop, registry, current_script, running_task, cancel_event, tname,
                   cfg_default, cfg_valid, files, mtime, watcher, nedits, tray, locals, store, pc, call, ret>>

(* A task is resumed at the await it waits in. *)
Resumable(h, at) == LoopRunning /\ task[h] = at /\ ~must_cancel[h]

TaskFrame ==
    UNCHANGED <<loop, registry, current_script, running_task, cancel_event, tname,
                ready, cfg_default, cfg_valid, files, mtime, watcher, nedits, tray, locals, store, pc,
                call, ret>>

(* websockets.connect succeeded (lines 126, 184); the layout coroutine     *)
(* subscribes and tests the event before its first recv (lines 99, 148).   *)
ConnectOk(h) ==
    /\ Resumable(h, "conn")
    /\ task' = [task EXCEPT ![h] = IF cancel_event THEN "exit" ELSE "sub"]
    /\ UNCHANGED <<must_cancel, fut>>
    /\ TaskFrame

(* websockets.connect raised: master_stack sleeps (line 189); dwindle      *)
(* sleeps only if the event is not set (line 133), else it is back at the  *)
(* test of line 124.                                                       *)
ConnectFail(h) ==
    /\ Resumable(h, "conn")
    /\ IF tname[h] = "dwindle" /\ cancel_event
       THEN Ended(h)
       ELSE /\ task' = [task EXCEPT ![h] = "backoff"]
            /\ UNCHANGED <<must_cancel, fut>>
    /\ TaskFrame

(* The sleep before reconnecting is over (lines 136, 189). *)
BackoffDone(h) ==
    /\ Resumable(h, "backoff")
    /\ OuterTest(h)
    /\ TaskFrame

(* The inner loop's test finds the event set (lines 99, 148): the layout   *)
(* coroutine returns and "async with" closes the connection.               *)
InnerExit(h) ==
    /\ Resumable(h, "sub")
    /\ cancel_event
    /\ task' = [task EXCEPT ![h] = "exit"]
    /\ UNCHANGED <<must_cancel, fut>>
    /\ TaskFrame

(* Handling a message raised (json.loads, a missing key, a closed socket): *)
(* the inner loop logs and sleeps half a second (lines 117-120, 175-178).  *)
MessageError(h) ==
    /\ Resumable(h, "sub")
    /\ task' = [task EXCEPT ![h] = "errsleep"]
    /\ UNCHANGED <<must_cancel, fut>>
    /\ TaskFrame

(* That sleep is over; the inner loop tests the event (lines 99, 148). *)
ErrSleepDone(h) ==
    /\ Resumable(h, "errsleep")
    /\ task' = [task EXCEPT ![h] = IF cancel_event THEN "exit" ELSE "sub"]
    /\ UNCHANGED <<must_cancel, fut>>
    /\ TaskFrame

(* The connection is closed; run() is back at its outer test. *)
ExitDone(h) ==
    /\ Resumable(h, "exit")
    /\ OuterTest(h)
    /\ TaskFrame

(* the exception of line 425 leaving run_layout and the loop with it *)
FailStopsLoop(h) ==
    /\ Resumable(h, "failed")
    /\ Ended(h)
    /\ pc' = [pc EXCEPT !["evt"] = "cleanup"]
    /\ UNCHANGED <<loop, registry, current_script, running_task, cancel_event, tname,
                   ready, cfg_default, cfg_valid, files, mtime, watcher, nedits,
                   call, ret, tray, locals, store>>

(* The sleep of run_layout's "except Exception" is over (line 433). *)
FailSleepDone(h) ==
    /\ Resumable(h, "failed")
    /\ Ended(h)
    /\ TaskFrame

(* CancelledError is thrown into the task where it waits.  At a recv of    *)
(* the inner loop it is caught and answered with "break" (lines 115-116,   *)
(* 173-174), which leads to the close of the connection; anywhere else it  *)
(* leaves run() and run_layout catches it (line 428), or it leaves         *)
(* run_layout from the sleep of line 433.                                  *)
TaskCancelled(h) ==
    /\ LoopRunning
    /\ task[h] \in Executing \cup {"failed"}
    /\ must_cancel[h]
    /\ IF task[h] \in {"sub", "query"}
       THEN /\ task' = [task EXCEPT ![h] = "exit"]
            /\ must_cancel' = [must_cancel EXCEPT ![h] = FALSE]
            /\ UNCHANGED fut
       ELSE Ended(h)
    /\ TaskFrame

(* Somebody else rewrites the config file, with text that does not parse  *)
(* or with the document it held before that.                               *)
EditConfig(ok) ==
    /\ nedits < MaxEdits
    /\ mtime + Cardinality(Starting) < MaxWrites
    /\ ok # cfg_valid
    /\ nedits' = nedits + 1
    /\ cfg_valid' = ok
    /\ mtime' = mtime + 1
    /\ UNCHANGED <<loop, registry, current_script, running_task, cancel_event, fut,
                   task, must_cancel, tname, ready, cfg_default, files, watcher,
                   pc, call, ret, tray, locals, store>>

(***************************************************************************)
(* The config watcher (monitor_config, check_config_changes) and the scan  *)
(* it triggers.  load_layouts runs in __init__ (wpc = "init") and in the   *)
(* watcher's thread (wpc = "loading"); one step is one entry of the        *)
(* config.                                                                 *)
(***************************************************************************)

(* lines 462-463 taking any file *)
ParsesAlways == TRUE

(* check_config_changes lines 462-463: json.load of the file succeeds *)
Parses == cfg_valid

(* check_config_changes lines 457-466: the file is newer than the one seen *)
(* last.  If it parses, its time is recorded and load_layouts begins with  *)
(* an empty dictionary (line 246) and the entries of the file; if not, the *)
(* error is logged and nothing is recorded.                                *)
Tick ==
    /\ wpc = "idle"
    /\ mtime > config_last_modified
    /\ IF Parses
       THEN /\ config_last_modified' = mtime
            /\ layouts' = {}
            /\ layout_items' = <<>>
            /\ todo' = cfg_layouts
            /\ wpc' = "loading"
            /\ reloads' = reloads + 1
            /\ UNCHANGED seen_invalid
       ELSE /\ seen_invalid' = TRUE
            /\ UNCHANGED <<config_last_modified, layouts, layout_items, todo, wpc,
                           reloads>>
    /\ UNCHANGED <<loop, default_layout, policy, cfg_default, cfg_valid, files, mtime,
                   nedits, tray, locals, store, pc, call, ret>>

(* load_layouts lines 252-253, one entry.  An exception out of             *)
(* _load_single_layout ends __init__, or is caught at line 472 of          *)
(* check_config_changes.                                                   *)
LoadSingle ==
    /\ wpc \in {"init", "loading"}
    /\ todo # <<>>
    /\ LET r == LoadSingleLayout(Head(todo), script_paths, disk)
       IN  IF r.out = "raise"
           THEN /\ wpc' = IF wpc = "init" THEN "crashed" ELSE "idle"
                /\ todo' = <<>>
                /\ UNCHANGED <<layouts, layout_items>>
           ELSE /\ layout_items' = IF r.out = "register"
                                   THEN RegisterLayout(layout_items, Head(todo).name, r.path)
                                   ELSE layout_items
                /\ layouts' = Keys(layout_items')
                /\ todo' = Tail(todo)
                /\ UNCHANGED wpc
    /\ UNCHANGED <<loop, default_layout, policy, cfg_default, cfg_valid, files, mtime,
                   config_last_modified, seen_invalid, reloads, nedits, tray, locals, store, pc, call, ret>>

(* refresh_menu rebuilding the menu and stopping what runs *)
RefreshMenuStops ==
    /\ current_script' = None
    /\ running_task' = NoTask
    /\ tooltip' = UpdateTooltip(None, layouts)
    /\ UNCHANGED <<cancel_event, fut, task, must_cancel, tname, ready>>

(* refresh_menu lines 512-526: the menu is rebuilt from the registry and   *)
(* the tooltip updated (line 523); the policy is not touched.              *)
RefreshMenu ==
    /\ UNCHANGED policy
    /\ tooltip' = UpdateTooltip(current_script, layouts)

(* load_config after the scan (line 75 of __init__, line 467 of            *)
(* check_config_changes), then refresh_menu (line 468).  A file that has   *)
(* stopped parsing since raises JSONDecodeError: out of __init__, or       *)
(* caught at line 469.                                                     *)
LoadConfig ==
    /\ wpc \in {"init", "loading"}
    /\ todo = <<>>
    /\ IF cfg_valid
       THEN /\ default_layout' = ValidateDefault(layout_items, cfg_default)
            /\ wpc' = "idle"
            /\ RefreshMenu
       ELSE /\ wpc' = IF wpc = "init" THEN "crashed" ELSE "idle"
            /\ UNCHANGED <<default_layout, policy, tooltip>>
    /\ UNCHANGED <<loop, layouts, layout_items, cfg_default, cfg_valid, files, mtime,
                   config_last_modified, todo, seen_invalid, reloads, nedits, icon, locals, store, pc,
                   call, ret>>

(* "Refresh" of the menu (line 573). *)
MenuRefresh ==
    /\ icon
    /\ pc["ctl"] = "idle"
    /\ RefreshMenu
    /\ ret' = [ret EXCEPT !["ctl"] = "refreshed"]
    /\ UNCHANGED <<loop, registry, cfg_default, cfg_valid, files, mtime, watcher,
                   nedits, icon, locals, store, pc, call>>

(* The documents somebody may write as the "layouts" of the config file. *)
Rewrites ==
    {BothEnabled,
     <<Entry("dwindle", TRUE), Entry("master_stack", FALSE)>>,
     <<Entry("dwindle", FALSE), Entry("master_stack", TRUE)>>}

(* Somebody else rewrites the config file with a document whose "layouts"  *)
(* are items.                                                              *)
EditLayouts(items) ==
    /\ nedits < MaxEdits
    /\ mtime + Cardinality(Starting) < MaxWrites
    /\ items # cfg_layouts \/ ~cfg_valid
    /\ nedits' = nedits + 1
    /\ cfg_valid' = TRUE
    /\ cfg_layouts' = items
    /\ mtime' = mtime + 1
    /\ UNCHANGED <<loop, registry, policy, cfg_default, script_paths, disk, watcher,
                   pc, call, ret, tray, locals, store>>

(***************************************************************************)
(* The policies statement by statement: run() and the layout coroutine of  *)
(* dwindle.py (lines 97-138) and master_stack.py (lines 145-191), with the *)
(* locals of the coroutines, the connection and the frames that arrive.    *)
(* The actions above follow a task as far as the supervisor is concerned   *)
(* and leave these locals alone; the actions below are used where the      *)
(* policy itself is the subject.                                           *)
(***************************************************************************)

MaxFails == 9        \* connection errors one run() sleeps after

(* tilingSize of a window: None ("null"), or a share of its parent: 0.3,   *)
(* 0.5, 0.7; "nowindow": the event carries no window at all.               *)
Sizes == {"null", "small", "half", "large"}

(* A tiling size that is not None, in tenths. *)
Tenths(z) == IF z = "small" THEN 3 ELSE IF z = "half" THEN 5 ELSE 7
Directions == {"horizontal", "vertical", "null"}

(* The frames the window manager may send: text that is not JSON; JSON     *)
(* without "messageType"; a client_response, whose data may hold a         *)
(* tilingDirection; an event_subscription, whose data may hold a window    *)
(* with a tilingSize.                                                      *)
Inbound ==
    {Frame("garbage", "null", "null"), Frame("noenvelope", "null", "null")}
    \cup {Frame("client_response", "null", d) : d \in Directions}
    \cup {Frame("event_subscription", z, "null") : z \in Sizes \cup {"nowindow"}}

Query == "query tiling-direction"
Toggle == "c toggle-tiling-direction"
SetHorizontal == "c set-tiling-direction horizontal"
SetVertical == "c set-tiling-direction vertical"
Commands == {Toggle, SetHorizontal, SetVertical}

(* lines 138 and 191: the largest delay of each policy *)
Cap(n) == IF n = "dwindle" THEN 10 * Unit ELSE 30 * Unit

Min(a, b) == IF a < b THEN a ELSE b

(* lines 138, 191 without the min *)
NextDelayUncapped(n, d) == (d * 3) \div 2

(* lines 138, 191: reconnect_delay = min(cap, reconnect_delay * 1.5) *)
NextDelay(n, d) == Min(Cap(n), (d * 3) \div 2)

(* lines 102-103, 152-153: json.loads raises, or the look-up of            *)
(* "messageType" raises KeyError                                           *)
Raises(m) == m.type \in {"garbage", "noenvelope"}

(* line 167: json.loads of the reply raises; anything that is JSON passes  *)
(* the two get() of line 168                                               *)
ReplyRaises(m) == m.type = "garbage"

(* lines 105-111 sending the command twice *)
DwindleSendsTwice(m) ==
    IF m.type = "event_subscription" /\ m.size \in Sizes \ {"null"} /\ Tenths(m.size) <= 5
    THEN <<Toggle, Toggle>> ELSE <<>>

(* dwindle_layout lines 105-111: what it sends for a frame that parses *)
DwindleSends(m) ==
    IF m.type = "event_subscription" /\ m.size \in Sizes \ {"null"} /\ Tenths(m.size) <= 5
    THEN <<Toggle>> ELSE <<>>

(* master_stack_layout lines 155-165: the frame makes it query *)
MasterStackQueries(m) == m.type = "event_subscription" /\ m.size \in Sizes \ {"null"}

(* lines 169 and 171 with the half on the other side *)
MasterStackSendsAtHalf(size, dir) ==
    IF Tenths(size) >= 5 /\ dir # "horizontal" THEN <<SetHorizontal>>
    ELSE IF Tenths(size) < 5 /\ dir # "vertical" THEN <<SetVertical>>
    ELSE <<>>

(* master_stack_layout lines 169-172: what it sends once it has the reply *)
MasterStackSends(size, dir) ==
    IF Tenths(size) > 5 /\ dir # "horizontal" THEN <<SetHorizontal>>
    ELSE IF Tenths(size) <= 5 /\ dir # "vertical" THEN <<SetVertical>>
    ELSE <<>>

RunFrame ==
    UNCHANGED <<loop, registry, current_script, running_task, cancel_event, tname,
                ready, cfg_default, cfg_valid, files, mtime, watcher, nedits, pc,
                call, ret, tray, store>>

(* "while not cancel_event.is_set()" of the layout coroutine (lines 99,    *)
(* 148): on to the next recv, or out of the coroutine and to the close of  *)
(* "async with".                                                           *)
LoopTest(h) ==
    /\ task' = [task EXCEPT ![h] = IF cancel_event THEN "exit" ELSE "sub"]
    /\ UNCHANGED <<must_cancel, fut>>

(* websockets.connect succeeded (lines 126, 184); the layout coroutine     *)
(* subscribes (lines 98, 146-147) and tests the event.                     *)
Connect(h) ==
    /\ Resumable(h, "conn")
    /\ websocket' = [websocket EXCEPT ![h] = "open"]
    /\ sent' = [sent EXCEPT ![h] = <<>>]
    /\ LoopTest(h)
    /\ UNCHANGED <<reconnect_delay, sleeps, tiling_size, session>>
    /\ UNCHANGED response
    /\ RunFrame

(* websockets.connect raised (lines 131-136, 186-189): master_stack sleeps *)
(* for reconnect_delay; dwindle does so only if the event is not set, and  *)
(* is back at the test of line 124 otherwise.                              *)
ConnectError(h) ==
    /\ Resumable(h, "conn")
    /\ Len(sleeps[h]) < MaxFails
    /\ IF tname[h] = "dwindle" /\ cancel_event
       THEN /\ Ended(h)
            /\ UNCHANGED <<sleeps, session>>
       ELSE /\ task' = [task EXCEPT ![h] = "backoff"]
            /\ sleeps' = [sleeps EXCEPT ![h] = Append(@, reconnect_delay[h])]
            /\ session' = [session EXCEPT ![h] = FALSE]
            /\ UNCHANGED <<must_cancel, fut>>
    /\ UNCHANGED <<reconnect_delay, websocket, tiling_size, sent>>
    /\ UNCHANGED response
    /\ RunFrame

(* That sleep is over (lines 136-138, 189-191): the delay grows, and run() *)
(* is back at its test (lines 124, 182).                                   *)
BackoffOver(h) ==
    /\ Resumable(h, "backoff")
    /\ reconnect_delay' = [reconnect_delay EXCEPT ![h] = NextDelay(tname[h], @)]
    /\ OuterTest(h)
    /\ UNCHANGED <<sleeps, websocket, tiling_size, sent, session>>
    /\ UNCHANGED response
    /\ RunFrame

(* The exception taking the statement out of the layout coroutine *)
CaughtOutside(h) ==
    /\ task' = [task EXCEPT ![h] = "backoff"]
    /\ websocket' = [websocket EXCEPT ![h] = "none"]
    /\ sleeps' = [sleeps EXCEPT ![h] = Append(@, reconnect_delay[h])]
    /\ UNCHANGED <<must_cancel, fut, reconnect_delay>>

(* "except Exception" of the inner loop (lines 117-120, 175-178): the      *)
(* error is logged and the coroutine sleeps half a second, inside the loop *)
(* and on the connection it has.                                           *)
Caught(h) ==
    /\ task' = [task EXCEPT ![h] = "errsleep"]
    /\ UNCHANGED <<must_cancel, fut, reconnect_delay, sleeps, websocket>>

(* dwindle's recv times out after a second (lines 101, 112-114): back to   *)
(* the test of line 99.  master_stack's recv has no timeout (line 151).    *)
RecvTimeout(h) ==
    /\ Resumable(h, "sub")
    /\ tname[h] = "dwindle"
    /\ websocket[h] = "open"
    /\ LoopTest(h)
    /\ UNCHANGED locals
    /\ RunFrame

(* recv returns frame m (lines 101-111, 151-165).  A frame that cannot be  *)
(* handled raises; dwindle answers an event of a small window with its     *)
(* command; master_stack sends its query for an event with a tiling size   *)
(* and awaits the reply (line 166); then the test of the loop.             *)
Recv(h, m) ==
    /\ Resumable(h, "sub")
    /\ websocket[h] = "open"
    /\ IF Raises(m)
       THEN /\ Caught(h)
            /\ sent' = [sent EXCEPT ![h] = <<>>]
            /\ UNCHANGED <<tiling_size, session>>
       ELSE IF tname[h] = "master_stack" /\ MasterStackQueries(m)
       THEN /\ task' = [task EXCEPT ![h] = "query"]
            /\ sent' = [sent EXCEPT ![h] = <<Query>>]
            /\ tiling_size' = [tiling_size EXCEPT ![h] = m.size]
            /\ UNCHANGED <<must_cancel, fut, reconnect_delay, sleeps, websocket,
                           session>>
       ELSE /\ sent' = [sent EXCEPT ![h] = IF tname[h] = "dwindle"
                                            THEN DwindleSends(m) ELSE <<>>]
            /\ session' = [session EXCEPT ![h] = TRUE]
            /\ LoopTest(h)
            /\ UNCHANGED <<reconnect_delay, sleeps, websocket, tiling_size>>
    /\ response' = [response EXCEPT ![h] = m]
    /\ RunFrame

(* The recv of line 166 returns frame m, which master_stack takes for the  *)
(* reply to its query (lines 167-172); then the test of the loop.          *)
RecvReply(h, m) ==
    /\ Resumable(h, "query")
    /\ websocket[h] = "open"
    /\ IF ReplyRaises(m)
       THEN /\ Caught(h)
            /\ UNCHANGED <<sent, session>>
       ELSE /\ sent' = [sent EXCEPT ![h] = @ \o MasterStackSends(tiling_size[h], m.dir)]
            /\ session' = [session EXCEPT ![h] = TRUE]
            /\ LoopTest(h)
            /\ UNCHANGED <<reconnect_delay, sleeps, websocket>>
    /\ tiling_size' = [tiling_size EXCEPT ![h] = None]
    /\ response' = [response EXCEPT ![h] = m]
    /\ RunFrame

(* The window manager closes the connection. *)
PeerCloses(h) ==
    /\ task[h] \in {"sub", "query", "errsleep"}
    /\ websocket[h] = "open"
    /\ websocket' = [websocket EXCEPT ![h] = "dead"]
    /\ UNCHANGED <<task, must_cancel, fut, reconnect_delay, sleeps, tiling_size, sent,
                   session>>
    /\ UNCHANGED response
    /\ RunFrame

(* recv on a connection the peer has closed raises ConnectionClosed, an    *)
(* Exception, inside the "try" of the inner loop (lines 101, 151, 166).    *)
RecvClosed(h) ==
    /\ Resumable(h, task[h])
    /\ task[h] \in {"sub", "query"}
    /\ websocket[h] = "dead"
    /\ Caught(h)
    /\ tiling_size' = [tiling_size EXCEPT ![h] = None]
    /\ UNCHANGED <<sent, session>>
    /\ UNCHANGED response
    /\ RunFrame

(* The half second of the handler is over (lines 120, 178); the test of    *)
(* the loop.                                                               *)
HandlerSleepOver(h) ==
    /\ Resumable(h, "errsleep")
    /\ LoopTest(h)
    /\ UNCHANGED locals
    /\ RunFrame

(* "async with" has closed the connection (lines 126, 184); run() is back  *)
(* at its test (lines 124, 182).                                           *)
Close(h) ==
    /\ Resumable(h, "exit")
    /\ websocket' = [websocket EXCEPT ![h] = "none"]
    /\ sent' = [sent EXCEPT ![h] = <<>>]
    /\ OuterTest(h)
    /\ UNCHANGED <<reconnect_delay, sleeps, tiling_size, session>>
    /\ UNCHANGED response
    /\ RunFrame

(* CancelledError is thrown into the task where it waits: caught and       *)
(* answered with "break" at a recv of the inner loop (lines 115-116,       *)
(* 173-174); anywhere else it leaves run(), "async with" closing the       *)
(* connection on its way, and run_layout catches it (line 428).            *)
Cancelled(h) ==
    /\ LoopRunning
    /\ task[h] \in Executing
    /\ must_cancel[h]
    /\ IF task[h] \in {"sub", "query"}
       THEN /\ task' = [task EXCEPT ![h] = "exit"]
            /\ must_cancel' = [must_cancel EXCEPT ![h] = FALSE]
            /\ UNCHANGED <<fut, websocket>>
       ELSE /\ Ended(h)
            /\ websocket' = [websocket EXCEPT ![h] = "none"]
    /\ tiling_size' = [tiling_size EXCEPT ![h] = None]
    /\ UNCHANGED <<reconnect_delay, sleeps, sent, session>>
    /\ UNCHANGED response
    /\ RunFrame

(***************************************************************************)
(* Specifications.                                                         *)
(***************************************************************************)

(* No other thread is inside start_layout or stop_script. *)
Serial(t) == \A u \in Threads \ {t} : pc[u] \notin InCall

CallerStep(t) == StopForce(t) \/ StopWaitDone(t) \/ StopTimeout(t) \/ StartResume(t)

Background ==
    \/ RunEventLoop
    \/ CreateIcon
    \/ LoopCleanup
    \/ LoopClose
    \/ LoopCallback
    \/ \E h \in Handles : ConnectOk(h)
    \/ \E h \in Handles : ConnectFail(h)
    \/ \E h \in Handles : BackoffDone(h)
    \/ \E h \in Handles : InnerExit(h)
    \/ \E h \in Handles : MessageError(h)
    \/ \E h \in Handles : ErrSleepDone(h)
    \/ \E h \in Handles : ExitDone(h)
    \/ \E h \in Handles : TaskCancelled(h)
    \/ \E ok \in BOOLEAN : EditConfig(ok)
    \/ \E t \in Threads : CallerStep(t)

(* The calls are made one after another. *)
Next ==
    \/ Serial("evt") /\ LaunchStart
    \/ \E n \in Names : Serial("ctl") /\ MenuStart(n)
    \/ Serial("ctl") /\ MenuStop
    \/ Background

Spec == Init /\ [][Next]_vars

(* The threads call whenever they get to it. *)
NextConc ==
    \/ LaunchStart
    \/ \E n \in Names : MenuStart(n)
    \/ MenuStop
    \/ Background

SpecConc == Init /\ [][NextConc]_vars

(* A thread inside stop_script or start_layout keeps running: its sleeps   *)
(* end and its clock advances.  Nothing is assumed of the loop's tasks.    *)
SpecFair == Spec /\ \A t \in Threads : WF_vars(CallerStep(t))

(* The supervisor with its watcher thread and an editor of the config      *)
(* file: the launch start and the policy it schedules, the menu's          *)
(* "Refresh", and the watcher's ticks.  (The menu starts and stops nothing *)
(* here, so no stop_script ever waits, the event is never raised and no    *)
(* task is ever cancelled.)                                                *)
NextWatch ==
    \/ CreateIcon
    \/ LaunchStart
    \/ StartResume("evt")
    \/ RunEventLoop
    \/ LoopCleanup
    \/ LoopClose
    \/ LoopCallback
    \/ \E h \in Handles : ConnectOk(h)
    \/ \E h \in Handles : ConnectFail(h)
    \/ \E h \in Handles : BackoffDone(h)
    \/ \E h \in Handles : MessageError(h)
    \/ \E h \in Handles : ErrSleepDone(h)
    \/ \E h \in Handles : FailSleepDone(h)
    \/ \E ok \in BOOLEAN : EditConfig(ok)
    \/ MenuRefresh
    \/ Tick
    \/ LoadSingle
    \/ LoadConfig
    \/ \E items \in Rewrites : EditLayouts(items)

SpecWatch == Init /\ [][NextWatch]_vars

(* The scan of __init__ (lines 74-75), over the config files and the       *)
(* script directories it may find.                                         *)
RECURSIVE SeqsUpTo(_, _)
SeqsUpTo(S, n) ==
    IF n = 0 THEN {<<>>}
    ELSE LET shorter == SeqsUpTo(S, n - 1)
         IN  shorter \cup {Append(q, x) : q \in shorter, x \in S}

ScanConfigs ==
    {q \in SeqsUpTo({Entry(n, e) : n \in Builtin, e \in BOOLEAN}, MaxItems) :
        \A i, j \in DOMAIN q : q[i].name = q[j].name => i = j}

ScanPaths == SeqsUpTo(Paths, MaxPaths)

ScanDisks == [Paths -> [Builtin -> Kinds]]

ScanInit ==
    /\ Fields
    /\ cfg_layouts \in ScanConfigs
    /\ script_paths \in ScanPaths
    /\ disk \in ScanDisks
    /\ cfg_default \in Names
    /\ cfg_exists = TRUE
    /\ cfg_keys = ConfigKeys
    /\ layout_items = <<>>
    /\ layouts = {}
    /\ default_layout = None
    /\ wpc = "init"
    /\ todo = cfg_layouts

ScanNext == LoadSingle \/ LoadConfig

SpecScan == ScanInit /\ [][ScanNext]_vars

(* One policy seen from inside: the launch start schedules the default     *)
(* layout, its task runs statement by statement against a window manager   *)
(* that accepts or refuses connections, sends any frame and may close the  *)
(* connection, and the menu's "Stop Script" stops it.                      *)
NextPolicy ==
    \/ RunEventLoop
    \/ CreateIcon
    \/ LaunchStart
    \/ StartResume("evt")
    \/ LoopCallback
    \/ MenuStop
    \/ StopForce("ctl")
    \/ StopWaitDone("ctl")
    \/ StopTimeout("ctl")
    \/ \E h \in Handles : Connect(h)
    \/ \E h \in Handles : ConnectError(h)
    \/ \E h \in Handles : BackoffOver(h)
    \/ \E h \in Handles : RecvTimeout(h)
    \/ \E h \in Handles, m \in Inbound : Recv(h, m)
    \/ \E h \in Handles, m \in Inbound : RecvReply(h, m)
    \/ \E h \in Handles : PeerCloses(h)
    \/ \E h \in Handles : RecvClosed(h)
    \/ \E h \in Handles : HandlerSleepOver(h)
    \/ \E h \in Handles : Close(h)
    \/ \E h \in Handles : Cancelled(h)

SpecPolicy == Init /\ [][NextPolicy]_vars

(* The loop runs what it is handed, and what a task waits for on its own   *)
(* account comes: its sleeps and timeouts end, a connect succeeds or       *)
(* fails, a close completes, a recv on a closed connection raises.         *)
(* Nothing is assumed of the window manager's frames nor of the menu's     *)
(* thread.                                                                 *)
SpecPolicyFair ==
    /\ SpecPolicy
    /\ WF_vars(LoopCallback)
    /\ \A h \in Handles :
          /\ WF_vars(Connect(h) \/ ConnectError(h))
          /\ WF_vars(BackoffOver(h))
          /\ WF_vars(RecvTimeout(h))
          /\ WF_vars(RecvClosed(h))
          /\ WF_vars(HandlerSleepOver(h))
          /\ WF_vars(Close(h))
          /\ WF_vars(Cancelled(h))

(***************************************************************************)
(* Observations used by the properties.                                    *)
(***************************************************************************)

(* line 563 checking every item while something is current *)
IsActiveAny(m) == current_script # None

(* _create_single_layout_item line 563: the menu item of m is checked. *)
IsActive(m) == current_script = m

(* listLayouts: the registered layouts, each with its active mark. *)
ListLayouts == [m \in layouts |-> IsActive(m)]

StopPcs == {"stop_sleep", "stop_wait"}

(* No call is in progress and the loop has nothing left to deliver. *)
Quiet ==
    /\ \A t \in Threads : pc[t] \notin InCall
    /\ ready = <<>>
    /\ \A h \in Handles : ~must_cancel[h]

(* Thread t calls start_layout(n) in this step. *)
CallsStart(t, n) ==
    IF t = "evt" THEN n = default_layout /\ LaunchStart ELSE MenuStart(n)

(* stop_script, called directly or from start_layout, returns to thread t  *)
(* in this step.                                                           *)
StopReturns(t) ==
    \/ pc[t] # "start_resume" /\ pc'[t] = "start_resume"
    \/ pc[t] \in StopPcs /\ pc'[t] = Home(t) /\ ret'[t] = "returned"
    \/ t = "ctl" /\ MenuStop /\ pc'[t] = "idle"

(***************************************************************************)
(* C1.  When the calls made so far have returned and the loop has nothing  *)
(* left to deliver, at most one policy task is non-terminal (scheduled and *)
(* not finished).                                                          *)
(***************************************************************************)
C1_AtMostOneNonTerminal == Quiet => Cardinality(NonTerminal) <= 1

(***************************************************************************)
(* C2.  Switching is sequential: there is no state in which the tasks of   *)
(* two different layouts are both executing policy steps (neither of them  *)
(* with a cancellation still to be delivered).                             *)
(***************************************************************************)
C2_NoOverlap ==
    \A g, h \in Handles :
        (/\ task[g] \in Executing /\ ~must_cancel[g]
         /\ task[h] \in Executing /\ ~must_cancel[h]) => tname[g] = tname[h]

(***************************************************************************)
(* C3.  With start and stop called concurrently from the loop's thread and *)
(* the menu thread, every interleaving leaves at most one non-terminal     *)
(* task, and running_task refers to it.                                    *)
(***************************************************************************)
C3_ConcurrentAtMostOne ==
    Quiet => /\ Cardinality(NonTerminal) <= 1
             /\ \A h \in NonTerminal : running_task = h

(* Every task the supervisor no longer refers to has at least been asked   *)
(* to stop, unless the loop is closed and runs no task any more: true of   *)
(* calls made one after another, not of concurrent ones.                   *)
DetachedWasCancelled ==
    \A h \in NonTerminal :
        h # running_task =>
            \/ fut[h] = "cancelled"
            \/ \E i \in 1..Len(ready) : ready[i] = Item("futcancel", h)
            \/ loop = "closed"

(***************************************************************************)
(* C4.  start(n) while n is the current layout returns False and changes   *)
(* nothing: no stop, the event untouched, no task scheduled or cancelled,  *)
(* the config file not rewritten.                                          *)
(***************************************************************************)
C4_IdempotentStart ==
    [][\A t \in Threads, n \in Names :
          (CallsStart(t, n) /\ n \in layouts /\ current_script = n)
              => (ret'[t] = "False" /\ pc'[t] = Home(t) /\ UNCHANGED supervisor)]_vars

C4_Witness ==
    /\ pc["ctl"] = "idle"
    /\ call["ctl"].op = "start" /\ call["ctl"].arg = call["ctl"].was
    /\ ret["ctl"] = "False"
    /\ running_task # NoTask
    /\ task[running_task] = "sub" /\ tname[running_task] = call["ctl"].arg

(***************************************************************************)
(* C5.  Whenever stop_script returns, running_task and current_script are  *)
(* empty and the event is clear.                                           *)
(***************************************************************************)
C5_StopLeavesNothing ==
    [][\A t \in Threads :
          StopReturns(t)
              => (running_task' = NoTask /\ current_script' = None /\ ~cancel_event')]_vars

C5_Witness ==
    /\ pc["ctl"] = "idle"
    /\ call["ctl"].op = "stop" /\ call["ctl"].had
    /\ ret["ctl"] = "returned"
    /\ running_task = NoTask /\ current_script = None /\ ~cancel_event
    /\ \E h \in Handles : task[h] \in Executing

(***************************************************************************)
(* C6.  stop() with no policy active returns normally and leaves the       *)
(* supervisor as it was: nothing cancelled, the event clear, registry and  *)
(* config file untouched.  (A stop() that follows a stop() is this case.)  *)
(***************************************************************************)
C6_StopIdempotent ==
    [][(MenuStop /\ running_task = NoTask /\ current_script = None)
          => /\ UNCHANGED supervisor
             /\ ~cancel_event'
             /\ pc'["ctl"] = "idle" /\ ret'["ctl"] = "returned"]_vars

C6_Witness ==
    /\ pc["ctl"] = "idle"
    /\ call["ctl"] = [op |-> "stop", arg |-> None, was |-> None, had |-> FALSE]
    /\ ret["ctl"] = "returned"
    /\ loop = "open"

(***************************************************************************)
(* C7.  stop() always returns, and so does every start(): a thread inside  *)
(* stop_script or start_layout eventually is back at its caller, whatever  *)
(* the loop and the tasks do.                                              *)
(***************************************************************************)
C7_StopAlwaysReturns ==
    \A t \in Threads : (pc[t] \in InCall) ~> (pc[t] \notin InCall)

(* stop_script gave up on a handle that never reported done. *)
C7_Witness ==
    /\ pc["ctl"] = "idle"
    /\ call["ctl"].had
    /\ ret["ctl"] \in {"returned", "True"}
    /\ \E h \in Handles : h # running_task /\ fut[h] = "pending" /\ task[h] \in Live

(***************************************************************************)
(* C8 as stated.  The event raised by stop() is still raised when that     *)
(* stop() returns.                                                         *)
(***************************************************************************)
C8_StillRaisedAfterStop ==
    [][\A t \in Threads :
          (pc[t] \in StopPcs /\ pc'[t] \notin StopPcs) => cancel_event']_vars

(***************************************************************************)
(* C8 as amended.  The event is raised exactly while a stop_script is      *)
(* between raising it and returning: it stays raised through the whole     *)
(* wait and stop_script itself clears it before it returns.                *)
(***************************************************************************)
C8_RaisedWhileStopping ==
    cancel_event <=> (\E t \in Threads : pc[t] \in StopPcs)

C8_Witness ==
    /\ pc["ctl"] = "idle"
    /\ call["ctl"].op = "stop" /\ call["ctl"].had
    /\ ret["ctl"] = "returned"
    /\ ~cancel_event
    /\ pc["evt"] = "loop" /\ call["evt"].had = FALSE

(***************************************************************************)
(* C9.  start(n) with n not in the registry returns False and changes      *)
(* nothing: the active policy keeps running, the event is not raised, the  *)
(* config file is not rewritten.                                           *)
(***************************************************************************)
C9_UnknownLayoutRejected ==
    [][\A t \in Threads, n \in Names :
          (CallsStart(t, n) /\ n \notin layouts)
              => (ret'[t] = "False" /\ pc'[t] = Home(t) /\ UNCHANGED supervisor)]_vars

C9_Witness ==
    /\ pc["ctl"] = "idle"
    /\ call["ctl"].op = "start" /\ call["ctl"].arg = "master_stack"
    /\ "master_stack" \notin layouts
    /\ ret["ctl"] = "False"
    /\ current_script = "dwindle"
    /\ running_task # NoTask /\ task[running_task] = "sub"

(***************************************************************************)
(* C10.  A start(n) that returns True leaves n the current script, the     *)
(* persisted default, and the one registered layout marked active.         *)
(***************************************************************************)
C10_StartMakesActive ==
    [][\A t \in Threads :
          (pc[t] = "start_resume" /\ ret'[t] = "True")
              => /\ call[t].arg \in layouts'
                 /\ cfg_valid' /\ cfg_default' = call[t].arg
                 /\ ListLayouts' = [m \in layouts' |-> m = call[t].arg]]_vars

(* dwindle was active, both are registered, start("master_stack"). *)
C10_Witness ==
    /\ layouts = Builtin
    /\ pc["ctl"] = "idle"
    /\ call["ctl"] = [op |-> "start", arg |-> "master_stack", was |-> "dwindle",
                      had |-> TRUE]
    /\ ret["ctl"] = "True"
    /\ cfg_default = "master_stack"
    /\ ListLayouts = [m \in Builtin |-> m = "master_stack"]

(***************************************************************************)
(* C11.  A start that gets as far as scheduling (the config file was       *)
(* rewritable) while there is no loop, or while the loop refuses the       *)
(* callback, returns False, and no handle exists that did not exist        *)
(* before: running_task and every future are as they were.                 *)
(***************************************************************************)
C11_NoLoopNoHandle ==
    [][\A t \in Threads :
          (pc[t] = "start_resume" /\ pc'[t] # "start_resume" /\ cfg_valid
                /\ loop # "open")
              => /\ ret'[t] = "False"
                 /\ Used' = Used
                 /\ running_task' = running_task
                 /\ \A h \in Handles : fut[h] = "none" => fut'[h] = "none"]_vars

(* The launch start raised and the loop was closed; a later menu start     *)
(* wrote the config file and was refused by the loop.                      *)
C11_Witness ==
    /\ loop = "closed"
    /\ pc["ctl"] = "idle"
    /\ call["ctl"].op = "start" /\ call["ctl"].arg = "master_stack"
    /\ ret["ctl"] = "False"
    /\ cfg_valid /\ cfg_default = "master_stack"
    /\ current_script = None
    /\ Used = {}

(***************************************************************************)
(* C12.  A task is scheduled only by a start_layout whose stop_script has  *)
(* returned and whose update_config has written the name: in the step      *)
(* that schedules it nothing is attached any more, the event is clear and  *)
(* stays clear, the file parses and its default is the name, and the task  *)
(* scheduled is the name's.                                                *)
(***************************************************************************)
C12_StartOrder ==
    [][Used' # Used
          => \E t \in Threads :
                /\ pc[t] = "start_resume" /\ pc'[t] = Home(t)
                /\ call[t].op = "start"
                /\ running_task = NoTask
                /\ ~cancel_event /\ ~cancel_event'
                /\ cfg_valid' /\ cfg_default' = call[t].arg
                /\ mtime' > mtime
                /\ running_task' \in Used' \ Used
                /\ tname'[running_task'] = call[t].arg]_vars

(* A switch from a running dwindle: master_stack has just been scheduled. *)
C12_Witness ==
    /\ pc["ctl"] = "idle"
    /\ call["ctl"] = [op |-> "start", arg |-> "master_stack", was |-> "dwindle",
                      had |-> TRUE]
    /\ ret["ctl"] = "True"
    /\ running_task # NoTask
    /\ task[running_task] = "unborn" /\ tname[running_task] = "master_stack"
    /\ ~cancel_event
    /\ cfg_default = "master_stack"

(***************************************************************************)
(* C13.  With both layouts registered and "dwindle" the validated default, *)
(* the launch (nothing asked of the menu before, the config file still     *)
(* parsing) calls start_layout("dwindle") with the loop in place, which    *)
(* returns True with dwindle's task scheduled; the menu then lists both    *)
(* layouts, dwindle and only dwindle checked.                              *)
(***************************************************************************)
C13_LaunchStartsDefault ==
    [][/\ (pc["evt"] = "launch" /\ pc'["evt"] # "launch")
            => (call'["evt"].op = "start" /\ call'["evt"].arg = default_layout
                    /\ loop = "open")
       /\ (/\ pc["evt"] = "start_resume" /\ pc'["evt"] # "start_resume"
           /\ call["ctl"] = NoCall /\ cfg_valid
           /\ layouts = Builtin /\ default_layout = "dwindle")
            => /\ ret'["evt"] = "True"
               /\ call["evt"].arg = "dwindle"
               /\ running_task' \in Handles
               /\ task'[running_task'] = "unborn"
               /\ tname'[running_task'] = "dwindle"
               /\ ListLayouts' = [m \in Builtin |-> m = "dwindle"]]_vars

C13_Witness ==
    /\ pc["evt"] = "loop"
    /\ call["evt"].op = "start" /\ call["evt"].arg = "dwindle"
    /\ ret["evt"] = "True"
    /\ call["ctl"] = NoCall
    /\ layouts = Builtin /\ default_layout = "dwindle"
    /\ running_task = 1 /\ task[1] = "sub" /\ tname[1] = "dwindle"
    /\ ListLayouts = [m \in Builtin |-> m = "dwindle"]

(***************************************************************************)
(* C14.  When a tick of the watcher ends with a registry that no longer    *)
(* holds the layout recorded as current, that policy has been stopped:     *)
(* nothing is attached, nothing is current, and no task was scheduled.     *)
(***************************************************************************)
C14_DisabledActiveStopped ==
    [][(/\ wpc = "loading" /\ wpc' = "idle"
        /\ running_task # NoTask
        /\ current_script \in Builtin /\ current_script \notin layouts')
          => /\ running_task' = NoTask
             /\ current_script' = None
             /\ Used' = Used]_vars

(***************************************************************************)
(* C15.  The watcher never adopts a file that does not parse: while the    *)
(* file does not parse and no load is in progress, no step changes the     *)
(* last-seen time, the registry or the default layout, and the file stays  *)
(* due for the next tick; the last-seen time advances, and a reload is     *)
(* counted, only on a file that parses and is newer, once for that file.   *)
(***************************************************************************)
C15_NeverAdoptsInvalid ==
    [][/\ (~cfg_valid /\ wpc = "idle")
            => /\ UNCHANGED <<config_last_modified, layouts, layout_items,
                              default_layout, reloads>>
               /\ (mtime > config_last_modified => mtime' > config_last_modified')
       /\ (config_last_modified' # config_last_modified \/ reloads' # reloads)
            => /\ cfg_valid
               /\ config_last_modified < mtime
               /\ config_last_modified' = mtime
               /\ reloads' = reloads + 1]_vars

(* Two writes, the first one not parsing and met by a tick; one reload. *)
C15_Witness ==
    /\ nedits = 2 /\ mtime = 2
    /\ seen_invalid /\ cfg_valid
    /\ wpc = "idle"
    /\ config_last_modified = mtime
    /\ reloads = 1
    /\ layouts = Keys(LoadLayouts(cfg_layouts, <<>>, script_paths, disk).reg)

(***************************************************************************)
(* C16.  No step of a reload (the tick, the entries of load_layouts,       *)
(* load_config with refresh_menu) and no "Refresh" of the menu touches the *)
(* policy: the event, the handle, the task and its pending callbacks, and  *)
(* the current script are as before; a current layout that the reloaded    *)
(* registry holds is the one checked in the menu.                          *)
(***************************************************************************)
C16_ReloadLeavesPolicy ==
    [][(Tick \/ LoadSingle \/ LoadConfig \/ MenuRefresh)
          => /\ UNCHANGED policy
             /\ (wpc' = "idle" /\ current_script \in layouts')
                    => ListLayouts' = [m \in layouts' |-> m = current_script]]_vars

(* dwindle was started, the file start_layout wrote has been reloaded and  *)
(* the menu refreshed, and dwindle's task is in its inner loop.            *)
C16_Witness ==
    /\ reloads >= 1 /\ wpc = "idle" /\ config_last_modified = mtime
    /\ ret["ctl"] = "refreshed"
    /\ current_script = "dwindle" /\ "dwindle" \in layouts
    /\ running_task # NoTask
    /\ task[running_task] = "sub" /\ tname[running_task] = "dwindle"

(***************************************************************************)
(* C17.  While the watcher's load_layouts runs, the registry any other     *)
(* thread reads holds every layout of the snapshot being loaded.           *)
(***************************************************************************)
C17_AtomicSnapshot ==
    wpc = "loading"
        => Keys(LoadLayouts(todo, layout_items, script_paths, disk).reg) \subseteq layouts

(***************************************************************************)
(* What a completed scan of __init__ found, read off the config file and   *)
(* the directories.                                                        *)
(***************************************************************************)
ScanDone == wpc = "idle"

Enabled(n) == \E i \in DOMAIN cfg_layouts : cfg_layouts[i] = Entry(n, TRUE)

Holders(n) == {i \in DOMAIN script_paths : disk[script_paths[i]][n] # "absent"}

FirstHolder(n) == CHOOSE i \in Holders(n) : \A j \in Holders(n) : i <= j

FoundKind(n) ==
    IF Holders(n) = {} THEN "absent" ELSE disk[script_paths[FirstHolder(n)]][n]

PathOf(n) == (CHOOSE i \in DOMAIN layout_items : layout_items[i].name = n)

C19_NoRunRejected ==
    /\ ScanDone
          => \A n \in Builtin :
                /\ (Enabled(n) /\ FoundKind(n) = "norun") => n \notin layouts
                /\ (Enabled(n) /\ FoundKind(n) = "ok") => n \in layouts
    /\ wpc = "crashed"
          => \E n \in Builtin :
                Enabled(n) /\ FoundKind(n) \notin {"absent", "ok", "norun", "importerr"}

(* The first entry's script has no run; the second entry is registered. *)
C19_Witness ==
    /\ ScanDone
    /\ cfg_layouts = BothEnabled
    /\ FoundKind("dwindle") = "norun" /\ FoundKind("master_stack") = "ok"
    /\ layouts = {"master_stack"}
    /\ default_layout = "master_stack"

(***************************************************************************)
(* C20.  Whatever error loading a script ends with, the scan goes on to    *)
(* its end and registers every enabled layout whose script is good; the    *)
(* error does not leave load_layouts.                                      *)
(***************************************************************************)
C20_LoadErrorSkipped ==
    /\ wpc # "crashed"
    /\ ScanDone => \A n \in Builtin : (Enabled(n) /\ FoundKind(n) = "ok") => n \in layouts

(***************************************************************************)
(* C21.  The delays one run() sleeps after its connection errors are 2,    *)
(* 2 * 1.5, 2 * 1.5^2, ... seconds, each capped at the policy's maximum    *)
(* (10 for dwindle, 30 for master_stack): none is below 2, none above the  *)
(* cap, and none smaller than the one before.                              *)
(***************************************************************************)
RECURSIVE Pow(_, _)
Pow(b, e) == IF e = 0 THEN 1 ELSE b * Pow(b, e - 1)

C21_BackoffDelays ==
    \A h \in Handles : \A k \in DOMAIN sleeps[h] :
        LET d == sleeps[h][k]
            cap == Cap(tname[h])
        IN  /\ d * Pow(2, k - 1) = Min(cap * Pow(2, k - 1), InitialDelay * Pow(3, k - 1))
            /\ InitialDelay <= d /\ d <= cap
            /\ k > 1 => sleeps[h][k - 1] <= d

(* Each policy has slept its cap, after shorter sleeps. *)
C21_Witness ==
    \E h \in Handles :
        /\ Len(sleeps[h]) = MaxFails
        /\ sleeps[h][1] = 2 * Unit /\ sleeps[h][2] = 3 * Unit
        /\ sleeps[h][4] < Cap(tname[h])
        /\ sleeps[h][MaxFails] = Cap(tname[h])
        /\ tname[h] = "master_stack" => sleeps[h][7] < 30 * Unit /\ sleeps[h][8] = 30 * Unit
        /\ tname[h] = "dwindle" => sleeps[h][5] = 10 * Unit

(***************************************************************************)
(* C22.  A connection error that follows a session in which the policy was *)
(* subscribed and handled what it received is slept off with the initial   *)
(* delay of 2 seconds, whatever the delay had grown to before the session. *)
(***************************************************************************)
C22_SessionResetsDelay ==
    [][\A h \in Handles :
          (session[h] /\ Len(sleeps'[h]) = Len(sleeps[h]) + 1)
              => sleeps'[h][Len(sleeps'[h])] = InitialDelay]_vars

(***************************************************************************)
(* C23.  Once the peer has closed the connection of a policy, the policy   *)
(* leaves its inner loop and sleeps before reconnecting, or attempts a new *)
(* connection, unless cancellation comes first; the error of the closed    *)
(* connection never ends the task.                                         *)
(***************************************************************************)
C23_ClosedConnectionReconnects ==
    \A h \in Handles :
        (websocket[h] = "dead" /\ ~cancel_event)
            ~> (task[h] \in {"backoff", "conn"} \/ cancel_event \/ must_cancel[h])

(***************************************************************************)
(* C24.  A frame that cannot be decoded or lacks the envelope, received as *)
(* an event or as the reply to a query, is caught inside the inner loop:   *)
(* the policy sleeps in the handler and, unless cancellation has come      *)
(* meanwhile, waits for the next frame on the same connection.  The        *)
(* connection stays open, no backoff sleep follows and the backoff delay   *)
(* is not changed.                                                         *)
(***************************************************************************)
Malformed(h, m) == (Recv(h, m) /\ Raises(m)) \/ (RecvReply(h, m) /\ ReplyRaises(m))

C25_AtMostOneMessage == \A h \in Handles : Len(sent[h]) <= 1

(* The commands among what the policy of handle h has sent for the event. *)
CommandsSent(h) == {i \in DOMAIN sent[h] : sent[h][i] \in Commands}

(***************************************************************************)
(* C25, amended.  For one inbound event a policy sends at most one         *)
(* tiling-direction command.  dwindle sends nothing else; master_stack     *)
(* sends its query before the command, so at most two messages, the first  *)
(* of which is the query.                                                  *)
(***************************************************************************)
C25_AtMostOneCommand ==
    \A h \in Handles :
        /\ Cardinality(CommandsSent(h)) <= 1
        /\ Len(sent[h]) <= 2
        /\ tname[h] = "dwindle" => Len(sent[h]) <= 1
        /\ Len(sent[h]) = 2 => sent[h][1] = Query /\ sent[h][2] \in Commands

(* master_stack has sent its query and a command for one event. *)
C25_Witness ==
    \E h \in Handles :
        /\ tname[h] = "master_stack"
        /\ sent[h] = <<Query, SetVertical>>
        /\ task[h] = "sub"

(***************************************************************************)
(* C26.  While the event stays raised and no cancel is forced on the task  *)
(* (stop_script is still in its first sleep), every policy that runs comes *)
(* to its end by testing the event, whether or not any frame arrives.      *)
(***************************************************************************)
C26_PollingTerminates ==
    \A h \in Handles :
        (cancel_event /\ task[h] \in Executing)
            ~> (task[h] = "ended" \/ pc["ctl"] # "stop_sleep")

(***************************************************************************)
(* C27.  A policy that has left its inner loop because it saw the event    *)
(* set or caught CancelledError (it is closing its connection) only comes  *)
(* to its end: it does not connect, receive, send or sleep again; and no   *)
(* task ends with its connection open.                                     *)
(***************************************************************************)
C27_CancellationTerminal ==
    [][\A h \in Handles :
          /\ task[h] = "exit" => task'[h] \in {"exit", "ended"}
          /\ task'[h] = "ended" => websocket'[h] = "none"]_vars

(***************************************************************************)
(* The supervisor with its watcher thread and nobody else writing the      *)
(* config file: every start rewrites the file (update_config), the watcher *)
(* reloads the registry after it, and the tasks scheduled meanwhile look   *)
(* their layout up in the registry as they find it.                        *)
(***************************************************************************)
NextReload ==
    \/ RunEventLoop
    \/ CreateIcon
    \/ Serial("evt") /\ LaunchStart
    \/ \E n \in Builtin : Serial("ctl") /\ MenuStart(n)
    \/ StartResume("evt")
    \/ CallerStep("ctl")
    \/ LoopCallback
    \/ \E h \in Handles : ConnectOk(h)
    \/ \E h \in Handles : ConnectFail(h)
    \/ \E h \in Handles : BackoffDone(h)
    \/ \E h \in Handles : InnerExit(h)
    \/ \E h \in Handles : MessageError(h)
    \/ \E h \in Handles : ErrSleepDone(h)
    \/ \E h \in Handles : ExitDone(h)
    \/ \E h \in Handles : TaskCancelled(h)
    \/ \E h \in Handles : FailSleepDone(h)
    \/ Tick
    \/ LoadSingle
    \/ LoadConfig

SpecReload == Init /\ [][NextReload]_vars

(* The loop, once it runs, runs what it is handed. *)
SpecReloadFair == SpecReload /\ WF_vars(LoopCallback)

C29_TooltipFollowsPolicy ==
    [][/\ \A t \in Threads :
             (icon /\ pc[t] = "start_resume" /\ pc'[t] = Home(t) /\ ret'[t] = "True")
                 => tooltip' = call[t].arg
       /\ \A t \in Threads : (icon /\ StopReturns(t)) => tooltip' = NoLayout
       /\ tooltip' \in Names => tooltip' = current_script']_vars

(***************************************************************************)
(* C30.  After a scan that ran to its end with a registry that is not      *)
(* empty, the default layout is registered: it is the default the config   *)
(* file names if that is registered, and the first layout of the registry  *)
(* otherwise.                                                              *)
(***************************************************************************)
C30_DefaultIsRegistered ==
    (ScanDone /\ layouts # {})
        => /\ default_layout \in layouts
           /\ cfg_default \in layouts => default_layout = cfg_default
           /\ cfg_default \notin layouts => default_layout = layout_items[1].name

(* The file names a default that is not registered, and the registry's     *)
(* first entry, master_stack, is the default.                              *)
C30_Witness ==
    /\ ScanDone
    /\ cfg_default = "dwindle"
    /\ layouts = {"master_stack", "dwindle"} \ {cfg_default}
    /\ Enabled("dwindle") /\ FoundKind("dwindle") = "norun"
    /\ default_layout = "master_stack"

(***************************************************************************)
(* The config store: the operations that read and write the config file,   *)
(* with the file as a document (its keys, the entries of its "layouts")    *)
(* and step by step where a read and a write of one operation can have     *)
(* another writer between them.  The actions above take the file to hold   *)
(* the three known keys; the actions below are used where the file itself  *)
(* is the subject.                                                         *)
(***************************************************************************)

(* json.load of the config file *)
ConfigFile == Doc(cfg_keys, cfg_default, script_paths, cfg_layouts)

(* json.dump(doc, file): the file exists and holds doc *)
Dump(doc) ==
    /\ cfg_exists' = TRUE
    /\ cfg_keys' = doc.keys
    /\ cfg_default' = doc.default_layout
    /\ script_paths' = doc.script_paths
    /\ cfg_layouts' = doc.layouts
    /\ mtime' = mtime + 1

StoreFile == <<cfg_exists, cfg_keys, cfg_default, script_paths, cfg_layouts, mtime>>

StoreFrame ==
    UNCHANGED <<loop, policy, cfg_valid, disk, watcher, nedits, pc, call, ret, tray,
                locals>>

(* __init__ line 74, load_layouts: the search paths and the layouts are    *)
(* read from the file (get_layout_config creates a missing file), and the  *)
(* registry is built from them.                                            *)
InitLoadLayouts ==
    /\ stage["init"] = "idle"
    /\ LET paths == GetScriptPaths(cfg_exists, ConfigFile)
           got == GetLayoutConfig(cfg_exists, ConfigFile)
           r == LoadLayouts(got.layouts, <<>>, paths, disk)
       IN  /\ IF cfg_exists THEN UNCHANGED StoreFile ELSE Dump(got.file)
           /\ layout_items' = r.reg
           /\ layouts' = Keys(r.reg)
           /\ display_names' = DisplayNames(r.reg, got.layouts)
           /\ stage' = [stage EXCEPT !["init"] = IF r.raised THEN "raised" ELSE "layouts"]
    /\ UNCHANGED <<default_layout, config, config_data, current_config, full_config>>
    /\ StoreFrame

(* __init__ line 75, load_config (lines 323-330). *)
InitLoadConfig ==
    /\ stage["init"] = "layouts"
    /\ IF ~cfg_exists
       THEN /\ Dump(DefaultConfig)
            /\ config' = DefaultConfig
            /\ default_layout' = DefaultConfig.default_layout
       ELSE /\ config' = MergeConfigs(ConfigFile, DefaultConfig)
            /\ default_layout' = ValidateDefault(layout_items, config'.default_layout)
            /\ UNCHANGED StoreFile
    /\ stage' = [stage EXCEPT !["init"] = "done"]
    /\ UNCHANGED <<layouts, layout_items, display_names, config_data, current_config,
                   full_config>>
    /\ StoreFrame

(* update_config(n) lines 395-399: the file is read, the key is set.       *)
(* start_layout calls it for a registered layout (lines 406, 413).         *)
UpdateConfigRead(n) ==
    /\ stage["init"] = "done"
    /\ n \in layouts
    /\ stage["update_config"] = "idle"
    /\ config_data' = Put(IF cfg_exists THEN ConfigFile ELSE Empty, "default_layout", n)
    /\ stage' = [stage EXCEPT !["update_config"] = "read"]
    /\ UNCHANGED <<registry, display_names, config, current_config, full_config, StoreFile>>
    /\ StoreFrame

(* update_config lines 400-401: the file is written. *)
UpdateConfigWrite ==
    /\ stage["update_config"] = "read"
    /\ Dump(config_data)
    /\ stage' = [stage EXCEPT !["update_config"] = "done"]
    /\ UNCHANGED <<registry, display_names, config, config_data, current_config,
                   full_config>>
    /\ StoreFrame

(* The rows of the editor's table: every row has a display name and a      *)
(* status (config_gui.py lines 472-479).                                   *)
Rows ==
    {<<Titled("dwindle", FALSE, "Dwindle Layout")>>,
     <<Titled("dwindle", TRUE, "Tiles"), Titled("master_stack", FALSE, "Master Stack")>>}

(* dict.update: an entry of rows replaces the entry of its name, a new     *)
(* name is added at the end.                                               *)
RECURSIVE Update(_, _)
Update(items, rows) ==
    IF rows = <<>> THEN items
    ELSE LET row == Head(rows)
             seen == \E i \in DOMAIN items : items[i].name = row.name
             next == IF seen
                     THEN [i \in DOMAIN items |->
                              IF items[i].name = row.name THEN row ELSE items[i]]
                     ELSE Append(items, row)
         IN  Update(next, Tail(rows))

(* apply_changes lines 500-509 (config_gui.py): the layouts of the file,   *)
(* updated with the rows of the table.                                     *)
ApplyChangesGet(rows) ==
    /\ stage["init"] = "done"
    /\ stage["apply_changes"] = "idle"
    /\ LET got == GetLayoutConfig(cfg_exists, ConfigFile)
       IN  /\ IF cfg_exists THEN UNCHANGED StoreFile ELSE Dump(got.file)
           /\ current_config' = Update(got.layouts, rows)
    /\ stage' = [stage EXCEPT !["apply_changes"] = "got"]
    /\ UNCHANGED <<registry, display_names, config, config_data, full_config>>
    /\ StoreFrame

(* apply_changes lines 511-514: the file is opened and read, the two keys  *)
(* are set (v: the default chosen in the editor).                          *)
ApplyChangesLoad(v) ==
    /\ stage["apply_changes"] = "got"
    /\ cfg_exists
    /\ full_config' = Put(Put(ConfigFile, "layouts", current_config), "default_layout", v)
    /\ stage' = [stage EXCEPT !["apply_changes"] = "loaded"]
    /\ UNCHANGED <<registry, display_names, config, config_data, current_config, StoreFile>>
    /\ StoreFrame

(* apply_changes lines 515-517: the file is rewritten. *)
ApplyChangesDump ==
    /\ stage["apply_changes"] = "loaded"
    /\ Dump(full_config)
    /\ stage' = [stage EXCEPT !["apply_changes"] = "done"]
    /\ UNCHANGED <<registry, display_names, config, config_data, current_config,
                   full_config>>
    /\ StoreFrame

(* The entries a file may hold for a layout: with or without "enabled",    *)
(* with or without "display_name".                                         *)
Infos(n) ==
    {Titled(n, TRUE, "Tiles"), Titled(n, FALSE, "Tiles"),
     [name |-> n, enabled |-> TRUE], [name |-> n, enabled |-> FALSE],
     [name |-> n, display_name |-> "Tiles"], [name |-> n]}

StoreLayouts ==
    {<<>>} \cup {<<a>> : a \in Infos("dwindle")}
           \cup {<<a, b>> : a \in Infos("dwindle"),
                            b \in {Titled("master_stack", TRUE, "Master Stack"),
                                   [name |-> "master_stack"]}}

(* The construction finds no config file, or one that holds a JSON object  *)
(* with any of the known keys and maybe an unknown one; the directory of   *)
(* scripts holds the packaged scripts.                                     *)
StoreInit ==
    /\ Fields
    /\ disk = Packaged
    /\ cfg_exists \in BOOLEAN
    /\ cfg_keys \in (IF cfg_exists THEN SUBSET DocKeys ELSE {{}})
    /\ cfg_default \in (IF "default_layout" \in cfg_keys THEN Names ELSE {None})
    /\ script_paths \in (IF "script_paths" \in cfg_keys
                         THEN {<<"scripts">>, <<"extra">>} ELSE {<<>>})
    /\ cfg_layouts \in (IF "layouts" \in cfg_keys THEN StoreLayouts ELSE {<<>>})
    /\ layout_items = <<>>
    /\ layouts = {}
    /\ default_layout = None
    /\ wpc = "init"
    /\ todo = <<>>

StoreNext ==
    \/ InitLoadLayouts
    \/ InitLoadConfig
    \/ \E n \in Builtin : UpdateConfigRead(n)
    \/ UpdateConfigWrite
    \/ \E rows \in Rows : ApplyChangesGet(rows)
    \/ \E v \in Builtin : ApplyChangesLoad(v)
    \/ ApplyChangesDump

SpecStore == StoreInit /\ [][StoreNext]_vars

(***************************************************************************)
(* C31.  load_config on a config file that exists: the config it works     *)
(* with has every key of the file with the file's value, the keys of the   *)
(* built-in default that the file lacks with the default's value, and no   *)
(* other key; the file is left as it was.                                  *)
(***************************************************************************)
C31_MergeFillsMissingOnly ==
    [][(InitLoadConfig /\ cfg_exists)
          => /\ config'.keys = cfg_keys \cup ConfigKeys
             /\ \A k \in ConfigKeys :
                   config'[k] = IF k \in cfg_keys THEN ConfigFile[k] ELSE DefaultConfig[k]
             /\ UNCHANGED StoreFile]_vars

(* The file names master_stack as its default, has no layout entry under   *)
(* "layouts" and lacks "script_paths": the two keys are kept as they are   *)
(* and the default search path is filled in.                               *)
C31_Witness ==
    /\ stage = [o \in Operations |-> IF o = "init" THEN "done" ELSE "idle"]
    /\ cfg_keys = {"default_layout", "layouts", "theme"}
    /\ cfg_default = "master_stack"
    /\ cfg_layouts = <<>>
    /\ config = Doc(DocKeys, "master_stack", <<"scripts">>, <<>>)

(***************************************************************************)
(* C32.  When the config file does not exist and is created, the document  *)
(* written to it is the built-in default of load_config: "default_layout", *)
(* one search path under "script_paths" and one enabled entry under        *)
(* "layouts".                                                              *)
(***************************************************************************)
C32_CreatedFileIsDefault ==
    [][(~cfg_exists /\ cfg_exists')
          => /\ cfg_keys' = ConfigKeys
             /\ cfg_default' = "dwindle"
             /\ Len(script_paths') = 1
             /\ Len(cfg_layouts') = 1 /\ EnabledOf(cfg_layouts'[1])]_vars

(***************************************************************************)
(* C33.  A config file that holds a JSON object is read with defaults for  *)
(* what it lacks, and never raises: without "script_paths" the scripts     *)
(* directory is searched, without "layouts" the two built-in layouts are   *)
(* loaded, an entry without "enabled" is loaded as enabled, an entry       *)
(* without "display_name" gets the capitalised name, without               *)
(* "default_layout" the default is dwindle if registered (else the first   *)
(* registered layout); and a key the program does not know is still in the *)
(* file after update_config has rewritten it.                              *)
(***************************************************************************)
C33_ReadersApplyDefaults ==
    [][/\ (InitLoadLayouts /\ cfg_exists)
            => LET paths == IF "script_paths" \in cfg_keys THEN script_paths
                            ELSE <<"scripts">>
                   items == IF "layouts" \in cfg_keys THEN cfg_layouts ELSE DefaultLayouts
                   on(i) == "enabled" \notin DOMAIN items[i] \/ items[i].enabled
               IN  /\ stage'["init"] = "layouts"
                   /\ \A n \in Builtin :
                         n \in layouts'
                            <=> /\ \E i \in DOMAIN items : items[i].name = n /\ on(i)
                                /\ \E j \in DOMAIN paths : paths[j] = "scripts"
                   /\ \A i \in DOMAIN items :
                         items[i].name \in layouts'
                            => display_names'[items[i].name]
                                  = IF "display_name" \in DOMAIN items[i]
                                    THEN items[i].display_name
                                    ELSE Capitalize(items[i].name)
       /\ (InitLoadConfig /\ "default_layout" \notin cfg_keys)
            => /\ stage'["init"] = "done"
               /\ default_layout' = IF "dwindle" \in layouts \/ layouts = {} THEN "dwindle"
                                    ELSE layout_items[1].name
       /\ (UpdateConfigWrite /\ "theme" \in cfg_keys) => "theme" \in cfg_keys'
      ]_vars

(* The file held {"layouts": {"dwindle": {}}, "theme": ...}: dwindle was   *)
(* found in the scripts directory and registered as "Dwindle", it is the   *)
(* default, and after update_config the file still has "theme".            *)
C33_Witness ==
    /\ stage = [o \in Operations |-> IF o = "apply_changes" THEN "idle" ELSE "done"]
    /\ cfg_keys = {"layouts", "theme", "default_layout"}
    /\ cfg_layouts = <<[name |-> "dwindle"]>>
    /\ config.keys = DocKeys
    /\ layout_items = <<[name |-> "dwindle", path |-> "scripts"]>>
    /\ display_names["dwindle"] = "Dwindle"
    /\ default_layout = "dwindle"

(***************************************************************************)
(* C34.  Whenever no call of start_layout or stop_script is in progress    *)
(* and the loop has nothing queued, a layout is marked active              *)
(* (current_script) only if the supervisor holds the handle of a task that *)
(* runs that layout and has not ended.                                     *)
(***************************************************************************)
C34_ActiveHasTask ==
    (Quiet /\ current_script # None)
        => /\ running_task # NoTask
           /\ task[running_task] \in Live
           /\ tname[running_task] = current_script

(***************************************************************************)
(* C35.  A task whose handle stop_script has cancelled (the event was      *)
(* raised, the grace wait is over, Future.cancel was called), that has     *)
(* been thrown the CancelledError and has left its inner loop, does not    *)
(* pass the test of run()'s outer loop again: it does not go on to a new   *)
(* websockets.connect.                                                     *)
(***************************************************************************)
C35_StoppedNeverReconnects ==
    [][\A h \in Handles :
          (/\ fut[h] = "cancelled"
           /\ task[h] = "exit"
           /\ ~must_cancel[h]
           /\ \A i \in DOMAIN ready : ready[i].h # h)
              => task'[h] # "conn"]_vars

(***************************************************************************)
(* C36.  The task that a successful start_layout(n) scheduled calls n's    *)
(* run() at its first step (unless it was cancelled before): it comes to   *)
(* run()'s connect, or to run()'s end at once if the event is set, and     *)
(* never fails to find n in the registry.                                  *)
(***************************************************************************)
C36_ScheduledTaskRunsLayout ==
    [][\A h \in Handles :
          (task[h] = "new" /\ task'[h] # "new" /\ ~must_cancel[h])
              => task'[h] \in {"conn", "ended"}]_vars

(***************************************************************************)
(* C37.  update_config's write changes "default_layout" and nothing else   *)
(* in the config file, whatever has been written to the file since         *)
(* update_config read it: "layouts" and "script_paths" are as they were in *)
(* the file just before the write, and no key disappears.                  *)
(***************************************************************************)
C37_UpdateWritesOneKey ==
    [][UpdateConfigWrite
          => /\ cfg_layouts' = cfg_layouts
             /\ script_paths' = script_paths
             /\ cfg_keys' = cfg_keys \cup {"default_layout"}]_vars

(***************************************************************************)
(* The watcher with a script that does not load: dwindle.py in the scripts *)
(* directory has been edited and raises when it is executed                *)
(* (pre_package_default_scripts writes only the scripts that are missing), *)
(* and the config file the program starts with has dwindle disabled, so    *)
(* the construction does not execute it.                                   *)
(***************************************************************************)
Broken ==
    [p \in Paths |->
        [n \in Builtin |-> IF p # "scripts" THEN "absent"
                           ELSE IF n = "dwindle" THEN "syntaxerr" ELSE "ok"]]

BrokenInit ==
    /\ Fields
    /\ cfg_layouts = <<Entry("dwindle", FALSE), Entry("master_stack", TRUE)>>
    /\ script_paths = <<"scripts">>
    /\ disk = Broken
    /\ cfg_default \in Builtin
    /\ cfg_exists = TRUE
    /\ cfg_keys = ConfigKeys
    /\ layout_items = LoadLayouts(cfg_layouts, <<>>, script_paths, disk).reg
    /\ layouts = Keys(layout_items)
    /\ default_layout = ValidateDefault(layout_items, cfg_default)
    /\ wpc = "idle"
    /\ todo = <<>>

SpecBroken == BrokenInit /\ [][NextWatch]_vars

(***************************************************************************)
(* C38.  A reload of the watcher that an exception ends (a script raises   *)
(* while load_layouts executes it) leaves the registry as it was before    *)
(* the reload (here: before the first reload, master_stack alone) and does *)
(* not record the file's modification time, so that the next tick finds    *)
(* the file newer than the one seen last and reloads again.                *)
(***************************************************************************)
C38_FailedReloadRetried ==
    [][(LoadSingle /\ wpc = "loading" /\ wpc' = "idle")
          => /\ config_last_modified' < mtime'
             /\ reloads = 1 => layouts' = {"master_stack"}]_vars

(***************************************************************************)
(* C39.  The frame that master_stack takes for the reply to its "query     *)
(* tiling-direction" (the recv of line 166) is never an event of the       *)
(* subscription.                                                           *)
(***************************************************************************)
C39_ReplyIsNoEvent ==
    [][\A h \in Handles : \A m \in Inbound :
          RecvReply(h, m) => m.type # "event_subscription"]_vars

=============================================================================
